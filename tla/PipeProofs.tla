----------------------------- MODULE PipeProofs -----------------------------
(***************************************************************************)
(* Proofs about Pipe, for any files, any sizes of chunk and pipe, and any  *)
(* number of kills.                                                        *)
(***************************************************************************)
EXTENDS Pipe, TLAPS

Working == {"closeread", "open", "read", "write"}

(* Who has which end open.                                                 *)
EndsOK ==
    /\ "parent" \in writers <=> pc["parent"] \in Working \cup {"fork"}
    /\ "child" \in writers <=> pc["child"] = "closewrite"
    /\ "parent" \in readers <=> pc["parent"] \in {"fork", "closeread"}
    /\ "child" \in readers <=> Alive("child")

(* Where the parent is in the files.                                       *)
PlaceOK ==
    /\ pc["parent"] \in {"pipe", "fork"} => pc["child"] = "none"
    /\ pc["parent"] \in {"pipe", "fork", "closeread"} => k = 1 /\ pos = 0
    /\ \A j \in 1 .. k - 1 : kind[j] # "absent"
    /\ pc["parent"] = "open" => pos = upTo[k - 1]
    /\ pc["parent"] \in {"read", "write"} =>
          kind[k] # "absent" /\ upTo[k - 1] <= pos /\ pos <= upTo[k]
    /\ pc["parent"] \notin {"write", "ended"} => held = 0

(* Without a kill the parent ends only when it has written all, and the    *)
(* child not before it.                                                    *)
DoneOK ==
    kills = 0 =>
        /\ pc["child"] \in {"print", "ended"} => pc["parent"] = "ended"
        /\ pc["parent"] = "ended" /\ pc["child"] # "none" => held = 0 /\ pos = upTo[Wanted]

ChildOK ==
    /\ pc["child"] \in {"none", "closewrite", "dest"} => got = 0 /\ copied = 0
    /\ pc["child"] = "print" => piped = 0 /\ writers = {}
    /\ program = "prob1" => ~dest
    /\ pc["child"] = "dest" => program = "pipes"

IInv == TypeOK /\ EndsOK /\ PlaceOK /\ DoneOK /\ ChildOK /\ Conserved

LEMMA ConstantsOK ==
    /\ MaxFiles \in Nat /\ MaxBytes \in Nat /\ MaxKills \in Nat
    /\ Chunk \in Nat \ {0} /\ PipeSize \in Nat /\ PipeSize >= Chunk
BY BoundsAssumption, ChunkAssumption

(* What the layout of the files says.                                      *)
LEMMA LayoutOK ==
    ASSUME TypeOK
    PROVE  /\ \A j \in 0..count : upTo[j] \in 0..MaxBytes
           /\ \A j \in 1..count : IF kind[j] = "file" THEN upTo[j - 1] <= upTo[j]
                                                      ELSE upTo[j - 1] = upTo[j]
           /\ upTo[0] = 0 /\ count \in Nat
BY ConstantsOK DEF TypeOK, Layouts

(* The files before the first missing one, when the parent is there.       *)
LEMMA WantedIs ==
    ASSUME TypeOK, \A j \in 1 .. k - 1 : kind[j] # "absent", k <= count => kind[k] = "absent"
    PROVE  Wanted = k - 1
<1> DEFINE Good(j) == /\ \A f \in 1..j : kind[f] # "absent"
                      /\ j < count => kind[j + 1] = "absent"
<1>1. count \in Nat /\ k \in 1..(count + 1)
  BY ConstantsOK DEF TypeOK
<1>2. k - 1 \in 0..count /\ Good(k - 1)
  BY <1>1
<1>3. ASSUME NEW j \in 0..count, Good(j) PROVE j = k - 1
  <2>1. CASE j < k - 1
    <3>1. j + 1 \in 1 .. k - 1 /\ j < count
      BY <1>1, <2>1
    <3> QED BY <1>3, <3>1
  <2>2. CASE k - 1 < j
    <3>1. k \in 1..j /\ k <= count
      BY <1>1, <2>2
    <3> QED BY <1>3, <3>1
  <2> QED BY <1>1, <2>1, <2>2
<1>4. Wanted = CHOOSE j \in 0..count : Good(j)
  BY DEF Wanted
<1> HIDE DEF Good
<1> QED BY <1>2, <1>3, <1>4

LEMMA InitIInv == Init => IInv
<1> SUFFICES ASSUME Init PROVE IInv
  OBVIOUS
<1> USE ConstantsOK DEF Init
<1>1. TypeOK
  <2>1. pc \in [Procs -> ParentPoints \cup ChildPoints]
    BY DEF Procs, ParentPoints, ChildPoints
  <2>2. k \in 1..(count + 1) /\ kills \in 0..MaxKills /\ pos \in 0..MaxBytes /\ held \in 0..Chunk
        /\ piped \in 0..PipeSize /\ got \in 0..MaxBytes /\ copied \in 0..MaxBytes
    OBVIOUS
  <2>3. pc["parent"] = "pipe" /\ pc["child"] = "none"
    OBVIOUS
  <2> QED BY <2>1, <2>2, <2>3 DEF TypeOK, ParentPoints, ChildPoints
<1>2. EndsOK
  BY DEF EndsOK, Working, Alive
<1>3. PlaceOK
  BY DEF PlaceOK
<1>4. DoneOK /\ ChildOK /\ Conserved
  BY DEF DoneOK, ChildOK, Conserved
<1> QED BY <1>1, <1>2, <1>3, <1>4 DEF IInv

-----------------------------------------------------------------------------
(* The steps at the beginning.                                             *)

LEMMA MakePipeIInv == IInv /\ MakePipe => IInv'
<1> SUFFICES ASSUME IInv, MakePipe PROVE IInv'
  OBVIOUS
<1> USE DEF IInv, MakePipe, At, Go, ExitOf, input, file
<1>1. TypeOK'
  BY DEF TypeOK, Procs, ParentPoints, ChildPoints
<1>2. (EndsOK /\ PlaceOK)'
  BY DEF TypeOK, ParentPoints, ChildPoints, EndsOK, PlaceOK, Working, Alive, Procs
<1>3. (DoneOK /\ ChildOK /\ Conserved)'
  BY DEF TypeOK, DoneOK, PlaceOK, ChildOK, Conserved, Procs
<1> QED BY <1>1, <1>2, <1>3

LEMMA ForkIInv == IInv /\ Fork => IInv'
<1> SUFFICES ASSUME IInv, Fork PROVE IInv'
  OBVIOUS
<1> USE DEF IInv, Fork, At, Go, ExitOf, input, file
<1>1. TypeOK'
  <2>1. CASE ExitOf("parent")
    BY <2>1 DEF TypeOK, Procs, ParentPoints, ChildPoints
  <2>2. CASE ~ExitOf("parent")
    <3>1. pc' = [parent |-> "closeread", child |-> "closewrite"] /\ readers' = Procs /\ writers' = Procs
      BY <2>2
    <3>2. pc' \in [Procs -> ParentPoints \cup ChildPoints]
      BY <3>1 DEF Procs, ParentPoints, ChildPoints
    <3>3. pc'["parent"] = "closeread" /\ pc'["child"] = "closewrite"
      BY <3>1
    <3>4. UNCHANGED <<program, count, kind, upTo, k, pos, held, piped, got, dest, copied, kills>>
      OBVIOUS
    <3> HIDE DEF IInv, Fork
    <3> QED BY <3>1, <3>2, <3>3, <3>4, TypeOK DEF TypeOK, ParentPoints, ChildPoints, IInv
  <2> QED BY <2>1, <2>2
<1>2. PlaceOK'
  BY DEF TypeOK, PlaceOK, Procs
<1>4. EndsOK'
  <2>1. CASE ExitOf("parent")
    BY <2>1 DEF TypeOK, ParentPoints, ChildPoints, EndsOK, PlaceOK, Working, Alive, Procs
  <2>2. CASE ~ExitOf("parent")
    <3>1. pc'["parent"] = "closeread" /\ pc'["child"] = "closewrite" /\ readers' = Procs /\ writers' = Procs
      BY <2>2
    <3> QED BY <3>1 DEF EndsOK, Working, Alive, Procs
  <2> QED BY <2>1, <2>2
<1>3. (DoneOK /\ ChildOK /\ Conserved)'
  BY DEF TypeOK, DoneOK, PlaceOK, ChildOK, Conserved, Procs
<1> QED BY <1>1, <1>2, <1>3, <1>4

-----------------------------------------------------------------------------
(* The parent.                                                             *)

LEMMA ParentClosesIInv == IInv /\ ParentCloses => IInv'
<1> SUFFICES ASSUME IInv, ParentCloses PROVE IInv'
  OBVIOUS
<1> USE DEF IInv, ParentCloses, At, Go, input, file
<1>1. TypeOK'
  BY DEF TypeOK, Procs, ParentPoints, ChildPoints
<1>2. EndsOK'
  BY DEF TypeOK, ParentPoints, ChildPoints, EndsOK, Working, Alive, Procs
<1>3. PlaceOK'
  BY LayoutOK DEF TypeOK, PlaceOK, Procs
<1>4. (DoneOK /\ ChildOK /\ Conserved)'
  BY DEF TypeOK, DoneOK, PlaceOK, ChildOK, Conserved, Procs
<1> QED BY <1>1, <1>2, <1>3, <1>4

LEMMA OpenIInv == IInv /\ Open => IInv'
<1> SUFFICES ASSUME IInv, Open PROVE IInv'
  OBVIOUS
<1> USE DEF IInv, Open, At, Go, ExitOf, input, file, fds
<1>0. k \in 1..(count + 1) /\ count \in Nat
  BY LayoutOK DEF TypeOK
<1>1. TypeOK'
  BY <1>0 DEF TypeOK, Procs, ParentPoints, ChildPoints
<1>2. EndsOK'
  BY DEF TypeOK, ParentPoints, ChildPoints, EndsOK, Working, Alive, Procs
<1>3. PlaceOK'
  <2>1. k <= count /\ kind[k] # "absent" => upTo[k - 1] <= upTo[k] /\ upTo[k - 1] \in Nat
    <3>1. k <= count => k \in 1..count /\ k - 1 \in 0..count
      BY <1>0
    <3>2. \A j \in 0..count : upTo[j] \in Nat
      BY ConstantsOK, LayoutOK
    <3> QED BY <3>1, <3>2, LayoutOK
  <2>2. \/ pc' = [pc EXCEPT !["parent"] = "ended"]
        \/ k <= count /\ kind[k] # "absent" /\ pc' = [pc EXCEPT !["parent"] = "read"]
    OBVIOUS
  <2>3. /\ pc'["parent"] = "ended" \/ (pc'["parent"] = "read" /\ k <= count /\ kind[k] # "absent")
        /\ pos = upTo[k - 1] /\ held = 0 /\ \A j \in 1 .. k - 1 : kind[j] # "absent"
    BY <2>2 DEF TypeOK, PlaceOK, Procs
  <2>4. UNCHANGED <<k, pos, held, kind, upTo>>
    OBVIOUS
  <2> HIDE DEF IInv, Open
  <2> QED BY <2>1, <2>3, <2>4 DEF PlaceOK
<1>4. DoneOK'
  <2>1. pc'["parent"] = "ended" => Wanted = k - 1
    BY <1>0, WantedIs DEF TypeOK, PlaceOK, Procs
  <2>2. Wanted' = Wanted
    BY DEF Wanted
  <2> QED BY <2>1, <2>2 DEF TypeOK, PlaceOK, DoneOK, Procs
<1>5. (ChildOK /\ Conserved)'
  BY DEF TypeOK, ChildOK, EndsOK, Conserved, Procs
<1> QED BY <1>1, <1>2, <1>3, <1>4, <1>5

LEMMA ParentReadIInv == IInv /\ ParentRead => IInv'
<1> SUFFICES ASSUME IInv, ParentRead PROVE IInv'
  OBVIOUS
<1> USE DEF IInv, ParentRead, At, Go, input, file, fds
<1>0. k \in 1..count /\ count \in Nat /\ k - 1 \in 0..count /\ upTo[k] \in 0..MaxBytes
      /\ upTo[k - 1] \in 0..MaxBytes /\ pos \in 0..MaxBytes /\ held = 0
      /\ upTo[k - 1] <= pos /\ pos <= upTo[k] /\ kind[k] # "absent"
  BY LayoutOK, ConstantsOK DEF TypeOK, PlaceOK
<1>1. CASE kind[k] = "file" /\ pos < upTo[k]
  <2>1. /\ held' \in 1..Chunk /\ pos' = pos + held' /\ pos' <= upTo[k] /\ k' = k
        /\ pc' = [pc EXCEPT !["parent"] = "write"]
    BY <1>0, <1>1, ConstantsOK DEF Least
  <2>2. TypeOK'
    <3>1. pos' \in 0..MaxBytes /\ held' \in 0..Chunk /\ k' <= count' /\ k' \in 1..(count' + 1)
      <4>1. count' = count
        OBVIOUS
      <4> HIDE DEF IInv, ParentRead
      <4>2. k' <= count' /\ k' \in 1..(count' + 1) /\ held' \in 0..Chunk
        BY <1>0, <2>1, <4>1, ConstantsOK
      <4> DEFINE end == upTo[k]   more == held'   after == pos'
      <4>3. end \in Int /\ end <= MaxBytes /\ pos \in Int /\ 0 <= pos
            /\ more \in Int /\ 0 <= more
        BY <1>0, <2>1, ConstantsOK
      <4>4. after = pos + more /\ after <= end /\ MaxBytes \in Int
        BY <2>1, ConstantsOK
      <4> HIDE DEF end, more, after
      <4>5. after \in Int /\ 0 <= after /\ after <= MaxBytes
        BY <4>3, <4>4
      <4> USE DEF after
      <4> QED BY <4>2, <4>5, ConstantsOK
    <3>2. pc' \in [Procs -> ParentPoints \cup ChildPoints] /\ pc'["parent"] = "write"
          /\ pc'["child"] = pc["child"]
      BY <2>1 DEF TypeOK, Procs, ParentPoints, ChildPoints
    <3>3. UNCHANGED <<program, count, kind, upTo, readers, writers, piped, got, dest, copied, kills>>
      OBVIOUS
    <3> HIDE DEF ParentRead
    <3> QED BY <3>1, <3>2, <3>3 DEF TypeOK, ParentPoints, ChildPoints
  <2>3. (EndsOK /\ DoneOK /\ ChildOK)'
    BY <2>1 DEF TypeOK, ParentPoints, ChildPoints, EndsOK, DoneOK, ChildOK, Working, Alive, Procs
  <2>4. PlaceOK'
    <3>1. pc'["parent"] = "write" /\ pos' <= upTo[k] /\ upTo[k - 1] <= pos'
      BY <1>0, <2>1, ConstantsOK DEF TypeOK, Procs
    <3>2. UNCHANGED <<kind, upTo, k>>
      BY <2>1
    <3> HIDE DEF ParentRead
    <3> QED BY <1>0, <3>1, <3>2 DEF PlaceOK
  <2>5. Conserved'
    <3>1. /\ got + piped + held = pos /\ got \in Nat /\ piped \in Nat
          /\ UNCHANGED <<got, piped, dest, copied>> /\ pc'["child"] = pc["child"]
          /\ (dest /\ pc["child"] \in {"read", "print"} => copied = got)
      BY <2>1 DEF TypeOK, Conserved, Procs
    <3> HIDE DEF IInv, ParentRead
    <3> QED BY <1>0, <2>1, <3>1, ConstantsOK DEF Conserved
  <2> QED BY <2>2, <2>3, <2>4, <2>5
<1>2. CASE ~(kind[k] = "file" /\ pos < upTo[k])
  <2>1. k' = k + 1 /\ pc' = [pc EXCEPT !["parent"] = "open"] /\ UNCHANGED <<pos, held>>
    BY <1>2
  <2>2. pos = upTo[k' - 1] /\ k' \in 1..(count + 1)
    BY <1>0, <1>2, <2>1, LayoutOK, ConstantsOK
  <2>3. TypeOK'
    BY <2>1, <2>2 DEF TypeOK, Procs, ParentPoints, ChildPoints
  <2>4. (EndsOK /\ DoneOK /\ ChildOK /\ Conserved)'
    BY <2>1 DEF TypeOK, ParentPoints, ChildPoints, EndsOK, DoneOK, ChildOK, Conserved, Working, Alive, Procs
  <2>5. PlaceOK'
    <3>1. \A j \in 1 .. k' - 1 : kind[j] # "absent"
      BY <1>0, <2>1 DEF PlaceOK
    <3> QED BY <1>0, <2>1, <2>2, <3>1 DEF TypeOK, PlaceOK, Procs
  <2> QED BY <2>3, <2>4, <2>5
<1> QED BY <1>1, <1>2

LEMMA ParentWriteIInv == IInv /\ ParentWrite => IInv'
<1> SUFFICES ASSUME IInv, ParentWrite PROVE IInv'
  OBVIOUS
<1> USE DEF IInv, ParentWrite, At, Go, input, file, fds
<1>1. TypeOK'
  BY ConstantsOK DEF TypeOK, Procs, ParentPoints, ChildPoints
<1>2. (EndsOK /\ PlaceOK)'
  BY DEF TypeOK, ParentPoints, ChildPoints, EndsOK, PlaceOK, Working, Alive, Procs
<1>3. (DoneOK /\ ChildOK)'
  BY DEF TypeOK, DoneOK, ChildOK, EndsOK, Working, Procs
<1>4. Conserved'
  BY ConstantsOK DEF TypeOK, Conserved, Procs
<1> QED BY <1>1, <1>2, <1>3, <1>4

(* Without a kill the child reads as long as the parent writes.            *)
LEMMA SigPipeIInv == IInv /\ SigPipe => IInv'
<1> SUFFICES ASSUME IInv, SigPipe PROVE IInv'
  OBVIOUS
<1> USE DEF IInv, SigPipe, At, Go, ExitOf, input, file
<1>1. kills # 0 \/ pc["child"] = "none"
  BY DEF TypeOK, ParentPoints, ChildPoints, EndsOK, DoneOK, Alive
<1>2. TypeOK'
  BY DEF TypeOK, Procs, ParentPoints, ChildPoints
<1>3. (EndsOK /\ PlaceOK /\ DoneOK)'
  BY <1>1 DEF TypeOK, ParentPoints, ChildPoints, EndsOK, PlaceOK, DoneOK, Working, Alive, Procs
<1>4. (ChildOK /\ Conserved)'
  BY DEF TypeOK, ChildOK, Conserved, Procs
<1> QED BY <1>2, <1>3, <1>4

-----------------------------------------------------------------------------
(* The child.                                                              *)

(* None of its steps changes where the parent is.                          *)
LEMMA ChildFrame ==
    ASSUME IInv, ChildCloses \/ OpenDest \/ ChildRead \/ EndOfFile \/ Copy \/ Finish
    PROVE  /\ UNCHANGED <<input, k, pos, held, kills>> /\ pc'["parent"] = pc["parent"]
           /\ pc["child"] # "none" /\ PlaceOK'
<1>1. UNCHANGED <<program, count, kind, upTo, k, pos, held, kills>> /\ pc'["parent"] = pc["parent"]
      /\ pc["child"] # "none"
  BY DEF IInv, TypeOK, ChildCloses, OpenDest, ChildRead, EndOfFile, Copy, Finish, At, Go, ExitOf,
         input, Procs
<1> QED BY <1>1 DEF IInv, PlaceOK, input

LEMMA ChildClosesIInv == IInv /\ ChildCloses => IInv'
<1> SUFFICES ASSUME IInv, ChildCloses PROVE IInv'
  OBVIOUS
<1> USE DEF IInv, ChildCloses, At, Go, input, file
<1>1. TypeOK'
  BY DEF TypeOK, Procs, ParentPoints, ChildPoints
<1>2. EndsOK'
  BY DEF TypeOK, ParentPoints, ChildPoints, EndsOK, Working, Alive, Procs
<1>3. DoneOK'
  BY DEF TypeOK, DoneOK, Wanted, Procs
<1>4. (ChildOK /\ Conserved)'
  BY DEF TypeOK, ChildOK, Conserved, Procs
<1> QED BY <1>1, <1>2, <1>3, <1>4, ChildFrame

LEMMA OpenDestIInv == IInv /\ OpenDest => IInv'
<1> SUFFICES ASSUME IInv, OpenDest PROVE IInv'
  OBVIOUS
<1> USE DEF IInv, OpenDest, At, Go, input, fds
<1>1. TypeOK'
  BY DEF TypeOK, Procs, ParentPoints, ChildPoints
<1>2. (EndsOK /\ DoneOK)'
  BY DEF TypeOK, ParentPoints, ChildPoints, EndsOK, DoneOK, Wanted, Working, Alive, Procs
<1>3. (ChildOK /\ Conserved)'
  BY DEF TypeOK, ChildOK, Conserved, Procs
<1> QED BY <1>1, <1>2, <1>3, ChildFrame

LEMMA ChildReadIInv == IInv /\ ChildRead => IInv'
<1> SUFFICES ASSUME IInv, ChildRead PROVE IInv'
  OBVIOUS
<1> DEFINE m == Least(Chunk, piped)
<1>1. m \in 1..piped /\ got' = got + m /\ piped' = piped - m
  BY ConstantsOK DEF ChildRead, Least, IInv, TypeOK
<1> HIDE DEF m
<1> USE DEF IInv, ChildRead, At, Go, input, file, fds
<1>2. got' + piped' + held' = pos' /\ got' \in 0..MaxBytes /\ piped' \in 0..PipeSize
  BY <1>1, ConstantsOK DEF TypeOK, Conserved
<1>3. TypeOK'
  BY <1>2 DEF TypeOK, Procs, ParentPoints, ChildPoints
<1>4. (EndsOK /\ DoneOK)'
  BY DEF TypeOK, ParentPoints, ChildPoints, EndsOK, DoneOK, Wanted, Working, Alive, Procs
<1>5. (ChildOK /\ Conserved)'
  BY <1>2 DEF TypeOK, ChildOK, Conserved, Procs
<1> QED BY <1>3, <1>4, <1>5, ChildFrame

LEMMA EndOfFileIInv == IInv /\ EndOfFile => IInv'
<1> SUFFICES ASSUME IInv, EndOfFile PROVE IInv'
  OBVIOUS
<1> USE DEF IInv, EndOfFile, At, Go, input, file, fds
<1>1. TypeOK'
  BY DEF TypeOK, Procs, ParentPoints, ChildPoints
<1>2. EndsOK'
  BY DEF TypeOK, ParentPoints, ChildPoints, EndsOK, Working, Alive, Procs
<1>3. pc["parent"] = "ended"
  BY DEF TypeOK, ParentPoints, ChildPoints, EndsOK, PlaceOK, Working
<1>4. (DoneOK /\ ChildOK /\ Conserved)'
  BY <1>3 DEF TypeOK, DoneOK, Wanted, ChildOK, Conserved, Procs
<1> QED BY <1>1, <1>2, <1>4, ChildFrame

LEMMA CopyIInv == IInv /\ Copy => IInv'
<1> SUFFICES ASSUME IInv, Copy PROVE IInv'
  OBVIOUS
<1> USE DEF IInv, Copy, At, Go, input, fds
<1>1. TypeOK'
  BY DEF TypeOK, Procs, ParentPoints, ChildPoints
<1>2. (EndsOK /\ DoneOK)'
  BY DEF TypeOK, ParentPoints, ChildPoints, EndsOK, DoneOK, Wanted, Working, Alive, Procs
<1>3. (ChildOK /\ Conserved)'
  BY DEF TypeOK, ChildOK, Conserved, Procs
<1> QED BY <1>1, <1>2, <1>3, ChildFrame

LEMMA FinishIInv == IInv /\ Finish => IInv'
<1> SUFFICES ASSUME IInv, Finish PROVE IInv'
  OBVIOUS
<1> USE DEF IInv, Finish, At, Go, ExitOf, input, file
<1>1. TypeOK'
  BY DEF TypeOK, Procs, ParentPoints, ChildPoints
<1>2. (EndsOK /\ DoneOK)'
  BY DEF TypeOK, ParentPoints, ChildPoints, EndsOK, DoneOK, Wanted, Working, Alive, Procs
<1>3. (ChildOK /\ Conserved)'
  BY DEF TypeOK, ChildOK, Conserved, Procs
<1> QED BY <1>1, <1>2, <1>3, ChildFrame

-----------------------------------------------------------------------------
LEMMA KillIInv == ASSUME IInv, NEW p \in Procs, Kill(p) PROVE IInv'
<1> USE DEF IInv, Kill, Go, ExitOf, input, file
<1>1. TypeOK'
  BY ConstantsOK DEF TypeOK, Procs, ParentPoints, ChildPoints
<1>2. (EndsOK /\ PlaceOK)'
  BY DEF TypeOK, ParentPoints, ChildPoints, EndsOK, PlaceOK, Working, Alive, Procs
<1>3. (DoneOK /\ ChildOK /\ Conserved)'
  BY ConstantsOK DEF TypeOK, DoneOK, ChildOK, Conserved, Procs, Alive
<1> QED BY <1>1, <1>2, <1>3

LEMMA StepIInv == IInv /\ [Next]_vars => IInv'
<1> SUFFICES ASSUME IInv, [Next]_vars PROVE IInv'
  OBVIOUS
<1>1. CASE Parent
  BY <1>1, MakePipeIInv, ForkIInv, ParentClosesIInv, OpenIInv, ParentReadIInv, ParentWriteIInv, SigPipeIInv
     DEF Parent
<1>2. CASE Child
  BY <1>2, ChildClosesIInv, OpenDestIInv, ChildReadIInv, EndOfFileIInv, CopyIInv, FinishIInv DEF Child
<1>3. ASSUME NEW p \in Procs, Kill(p) PROVE IInv'
  BY <1>3, KillIInv
<1>4. CASE UNCHANGED vars
  BY <1>4 DEF IInv, TypeOK, EndsOK, PlaceOK, DoneOK, ChildOK, Conserved, Wanted, Alive, vars, input, file, fds
<1> QED BY <1>1, <1>2, <1>3, <1>4 DEF Next

LEMMA Invariant == Spec => []IInv
BY InitIInv, StepIInv, PTL DEF Spec

(* Every variable keeps its type, and the pipe never holds too much        *)
(* (prob1.c, pipes.c).                                                     *)
THEOREM TypeCorrect == Spec => []TypeOK
<1>1. IInv => TypeOK
  BY DEF IInv
<1> QED BY <1>1, Invariant, PTL

(* No byte is lost or doubled between the files and the child              *)
(* (prob1.c:40-46, 65-72, pipes.c:38-43, 58-63).                           *)
THEOREM LosesNothing == Spec => []Conserved
<1>1. IInv => Conserved
  BY DEF IInv
<1> QED BY <1>1, Invariant, PTL

(* The child sees the end of the pipe only after all files are through     *)
(* (prob1.c:43-50, pipes.c:58-65).                                         *)
THEOREM EndsComplete == Spec => []Complete
<1>1. IInv => Complete
  <2> SUFFICES ASSUME IInv, pc["child"] = "print" PROVE Complete
    BY DEF Complete
  <2>1. pc["parent"] = "ended" /\ piped = 0
    BY DEF IInv, ChildOK, EndsOK, PlaceOK, TypeOK, Working, ParentPoints
  <2>2. kills = 0 => held = 0 /\ pos = upTo[Wanted]
    BY <2>1 DEF IInv, DoneOK
  <2>3. kills = 0 => got = pos /\ (dest => copied = got)
    BY <2>1, <2>2 DEF IInv, Conserved, TypeOK
  <2> QED BY <2>1, <2>2, <2>3 DEF Complete
<1> QED BY <1>1, Invariant, PTL
(* What BothEnd needs of each state: as long as one of them is there, a    *)
(* call of one of them returns.  The parent waits only for room in the     *)
(* pipe, and then the child has something to read; the child waits only    *)
(* for a writer, which is the parent (prob1.c:38, 57, pipes.c:33, 52).     *)
CanGoOn ==
    \/ pc["parent"] \in {"pipe", "fork", "closeread", "open", "read"}
    \/ pc["parent"] = "write" /\ (readers = {} \/ piped + held <= PipeSize)
    \/ pc["child"] \in {"closewrite", "dest", "copy", "print"}
    \/ pc["child"] = "read" /\ (piped > 0 \/ writers = {})

BothOver == pc["parent"] = "ended" /\ ~Alive("child")

(* They never wait for each other, whoever is killed and however small the *)
(* pipe is: each has closed the end it does not use.                       *)
THEOREM NeverStuck == Spec => [](BothOver \/ CanGoOn)
<1>1. IInv => BothOver \/ CanGoOn
  <2> SUFFICES ASSUME IInv, ~BothOver, ~CanGoOn PROVE FALSE
    OBVIOUS
  <2>1. /\ pc["parent"] \in {"write", "ended"} /\ pc["child"] \in {"none", "read", "ended"}
        /\ held \in Nat /\ held <= Chunk /\ piped \in Nat /\ Chunk \in Nat /\ PipeSize \in Nat
        /\ Chunk <= PipeSize /\ readers \subseteq Procs /\ writers \subseteq Procs
    BY ConstantsOK DEF IInv, TypeOK, CanGoOn, ParentPoints, ChildPoints
  <2>2. CASE pc["parent"] = "write"
    <3>1. readers # {} /\ piped > 0
      BY <2>1, <2>2 DEF CanGoOn
    <3>2. "parent" \notin readers
      BY <2>2 DEF IInv, EndsOK
    <3>3. Alive("child")
      BY <2>1, <3>1, <3>2 DEF IInv, EndsOK, Procs
    <3> QED BY <2>1, <3>1, <3>3 DEF Alive, CanGoOn
  <2>3. CASE pc["parent"] = "ended"
    <3>1. pc["child"] = "read"
      BY <2>1, <2>3 DEF BothOver, Alive
    <3>2. "parent" \notin writers /\ "child" \notin writers
      BY <2>3, <3>1 DEF IInv, EndsOK, Working
    <3>3. writers = {}
      BY <2>1, <3>2 DEF Procs
    <3> QED BY <3>1, <3>3 DEF CanGoOn
  <2> QED BY <2>1, <2>2, <2>3
<1> QED BY <1>1, Invariant, PTL

(* What ends the program: every step, a kill too, leaves less to be done.  *)
(* A byte counts more in its file than in the buffer, there more than in   *)
(* the pipe, and there more than one step of the child.                    *)
ParentLeft(at) ==
    IF at = "pipe" THEN 10 ELSE IF at = "fork" THEN 9 ELSE IF at = "closeread" THEN 3
    ELSE IF at \in {"open", "write"} THEN 2 ELSE IF at = "read" THEN 1 ELSE 0

ChildLeft(at) ==
    IF at = "closewrite" THEN 4 ELSE IF at \in {"dest", "copy"} THEN 3
    ELSE IF at = "read" THEN 2 ELSE IF at = "print" THEN 1 ELSE 0

Work ==
    6 * (MaxBytes - pos) + 4 * held + 2 * piped + 2 * (count + 1 - k)
        + ParentLeft(pc["parent"]) + ChildLeft(pc["child"])

Shrinks     == Work \in Nat /\ Work' < Work
WorkShrinks == [][Shrinks]_vars

LEMMA WorkTypes ==
    ASSUME TypeOK
    PROVE  /\ MaxBytes \in Nat /\ pos \in Nat /\ pos <= MaxBytes /\ held \in Nat /\ piped \in Nat
           /\ count \in Nat /\ k \in Nat /\ k <= count + 1
           /\ ParentLeft(pc["parent"]) \in Nat /\ ChildLeft(pc["child"]) \in Nat
           /\ Work \in Nat
<1>1. /\ MaxBytes \in Nat /\ pos \in Nat /\ pos <= MaxBytes /\ held \in Nat /\ piped \in Nat
      /\ count \in Nat /\ k \in Nat /\ k <= count + 1
  BY ConstantsOK DEF TypeOK
<1>2. ParentLeft(pc["parent"]) \in Nat /\ ChildLeft(pc["child"]) \in Nat
  BY DEF ParentLeft, ChildLeft
<1> QED BY <1>1, <1>2 DEF Work

LEMMA EndWork ==
    ASSUME TypeOK, NEW p \in Procs, Alive(p), ExitOf(p), UNCHANGED <<pos, held, piped, count, k>>
    PROVE  Work' < Work
<1>1. pc' = [pc EXCEPT ![p] = "ended"]
  BY DEF ExitOf, Go
<1>2. CASE p = "parent"
  <2>1. pc'["parent"] = "ended" /\ pc'["child"] = pc["child"]
    BY <1>1, <1>2 DEF TypeOK, Procs
  <2>2. pc["parent"] \in {"pipe", "fork", "closeread", "open", "read", "write"}
    BY <1>2 DEF TypeOK, Alive, ParentPoints
  <2>3. ParentLeft(pc["parent"])' < ParentLeft(pc["parent"])
    BY <2>1, <2>2 DEF ParentLeft
  <2>4. ChildLeft(pc["child"])' = ChildLeft(pc["child"])
    BY <2>1
  <2> QED BY <2>3, <2>4, WorkTypes DEF Work, ParentLeft
<1>3. CASE p = "child"
  <2>1. pc'["child"] = "ended" /\ pc'["parent"] = pc["parent"]
    BY <1>1, <1>3 DEF TypeOK, Procs
  <2>2. pc["child"] \in {"closewrite", "dest", "read", "copy", "print"}
    BY <1>3 DEF TypeOK, Alive, ChildPoints
  <2>3. ChildLeft(pc["child"])' < ChildLeft(pc["child"])
    BY <2>1, <2>2 DEF ChildLeft
  <2>4. ParentLeft(pc["parent"])' = ParentLeft(pc["parent"])
    BY <2>1
  <2> QED BY <2>3, <2>4, WorkTypes DEF Work, ChildLeft
<1> QED BY <1>2, <1>3 DEF Procs

LEMMA ParentWork == ASSUME IInv, Parent PROVE Work' < Work
<1>1. TypeOK /\ PlaceOK /\ pc \in [Procs -> ParentPoints \cup ChildPoints] /\ "parent" \in Procs
      /\ "child" \in Procs
  BY DEF IInv, TypeOK, Procs
<1>2. /\ MaxBytes \in Nat /\ pos \in Nat /\ pos <= MaxBytes /\ held \in Nat /\ piped \in Nat
      /\ count \in Nat /\ k \in Nat /\ k <= count + 1 /\ ChildLeft(pc["child"]) \in Nat
  BY <1>1, WorkTypes
<1>3. ASSUME ExitOf("parent"), Alive("parent"), UNCHANGED <<pos, held, piped, count, k>>
      PROVE  Work' < Work
  BY <1>1, <1>3, EndWork
<1>4. CASE MakePipe
  <2>1. UNCHANGED <<pos, held, piped, count, k>> /\ Alive("parent")
    BY <1>4 DEF MakePipe, input, At, Alive
  <2>2. CASE Go("parent", "fork")
    BY <1>1, <1>2, <1>4, <2>1, <2>2 DEF MakePipe, At, Go, Work, ParentLeft
  <2> QED BY <1>3, <1>4, <2>1, <2>2 DEF MakePipe
<1>5. CASE Fork
  <2>1. UNCHANGED <<pos, held, piped, count, k>> /\ Alive("parent") /\ pc["parent"] = "fork"
    BY <1>5 DEF Fork, input, At, Alive
  <2>2. CASE pc' = [parent |-> "closeread", child |-> "closewrite"]
    BY <1>2, <2>1, <2>2 DEF Work, ParentLeft, ChildLeft
  <2> QED BY <1>3, <1>5, <2>1, <2>2 DEF Fork
<1>6. CASE ParentCloses
  BY <1>1, <1>2, <1>6 DEF ParentCloses, input, At, Go, Work, ParentLeft
<1>7. CASE Open
  <2>1. UNCHANGED <<pos, held, piped, count, k>> /\ Alive("parent") /\ pc["parent"] = "open"
    BY <1>7 DEF Open, input, At, Alive
  <2>2. CASE Go("parent", "read")
    BY <1>1, <1>2, <2>1, <2>2 DEF Go, Work, ParentLeft
  <2> QED BY <1>3, <1>7, <2>1, <2>2 DEF Open
<1>8. CASE ParentRead
  <2>1. pc["parent"] = "read" /\ held = 0 /\ piped' = piped /\ count' = count
    BY <1>1, <1>8 DEF ParentRead, At, PlaceOK, input
  <2>2. CASE kind[k] = "file" /\ pos < upTo[k]
    <3>1. /\ held' = Least(Chunk, upTo[k] - pos) /\ pos' = pos + held' /\ k' = k
          /\ pc' = [pc EXCEPT !["parent"] = "write"]
      BY <1>8, <2>2 DEF ParentRead, Go
    <3>2. upTo[k] \in Nat /\ k \in 1..count
      BY <1>1, <1>2, <2>1, LayoutOK DEF TypeOK
    <3>3. held' \in Nat /\ held' >= 1
      BY <1>2, <2>2, <3>1, <3>2, ConstantsOK DEF Least
    <3>4. pc'["parent"] = "write" /\ pc'["child"] = pc["child"]
      BY <1>1, <3>1
    <3> QED BY <1>2, <2>1, <3>1, <3>3, <3>4 DEF Work, ParentLeft
  <2>3. CASE ~(kind[k] = "file" /\ pos < upTo[k])
    <3>1. k' = k + 1 /\ pos' = pos /\ held' = held /\ pc' = [pc EXCEPT !["parent"] = "open"]
      BY <1>8, <2>3 DEF ParentRead, Go
    <3>2. pc'["parent"] = "open" /\ pc'["child"] = pc["child"]
      BY <1>1, <3>1
    <3> QED BY <1>2, <2>1, <3>1, <3>2 DEF Work, ParentLeft
  <2> QED BY <2>2, <2>3
<1>9. CASE ParentWrite
  <2>1. /\ pc["parent"] = "write" /\ pos' = pos /\ count' = count /\ k' = k
        /\ piped' = piped + held /\ held' = 0 /\ pc' = [pc EXCEPT !["parent"] = "read"]
    BY <1>9 DEF ParentWrite, At, Go, input
  <2>2. pc'["parent"] = "read" /\ pc'["child"] = pc["child"]
    BY <1>1, <2>1
  <2> QED BY <1>2, <2>1, <2>2 DEF Work, ParentLeft
<1>10. CASE SigPipe
  <2>1. UNCHANGED <<pos, held, piped, count, k>> /\ Alive("parent")
    BY <1>10 DEF SigPipe, input, At, Alive
  <2> QED BY <1>3, <1>10, <2>1 DEF SigPipe
<1> QED BY <1>4, <1>5, <1>6, <1>7, <1>8, <1>9, <1>10 DEF Parent

LEMMA LessAdded ==
    ASSUME NEW a \in Int, NEW b \in Int, NEW x \in Int, NEW y \in Int, x < y
    PROVE  a + x + b < a + y + b
OBVIOUS

LEMMA ChildWork == ASSUME IInv, Child PROVE Work' < Work
<1>1. TypeOK /\ pc \in [Procs -> ParentPoints \cup ChildPoints] /\ "parent" \in Procs
      /\ "child" \in Procs
  BY DEF IInv, TypeOK, Procs
<1>2. /\ MaxBytes \in Nat /\ pos \in Nat /\ pos <= MaxBytes /\ held \in Nat /\ piped \in Nat
      /\ count \in Nat /\ k \in Nat /\ k <= count + 1 /\ ParentLeft(pc["parent"]) \in Nat
  BY <1>1, WorkTypes
<1>3. UNCHANGED <<pos, held, count, k>>
  BY DEF Child, ChildCloses, OpenDest, ChildRead, EndOfFile, Copy, Finish, input
<1>4. ASSUME pc'["parent"] = pc["parent"], piped' \in Nat,
             2 * piped' + ChildLeft(pc'["child"]) < 2 * piped + ChildLeft(pc["child"])
      PROVE  Work' < Work
  <2> DEFINE a == 6 * (MaxBytes - pos) + 4 * held
             b == 2 * (count + 1 - k) + ParentLeft(pc["parent"])
             x == 2 * piped' + ChildLeft(pc'["child"])
             y == 2 * piped + ChildLeft(pc["child"])
  <2>1. a \in Int /\ b \in Int
    BY <1>2
  <2>2. x \in Int /\ y \in Int /\ x < y
    <3>1. ChildLeft(pc["child"]) \in Nat /\ ChildLeft(pc'["child"]) \in Nat
      BY DEF ChildLeft
    <3> QED BY <1>2, <1>4, <3>1
  <2>3. Work = a + y + b
    BY <1>2, <2>1, <2>2 DEF Work, ChildLeft
  <2>4. Work' = a + x + b
    BY <1>2, <1>3, <1>4, <2>1, <2>2 DEF Work, ChildLeft
  <2> HIDE DEF a, b, x, y
  <2> QED BY <2>1, <2>2, <2>3, <2>4, LessAdded
<1>5. ASSUME NEW at, Go("child", at)
      PROVE  pc'["parent"] = pc["parent"] /\ pc'["child"] = at
  BY <1>1, <1>5 DEF Go
<1>6. CASE ChildCloses
  <2>1. /\ pc["child"] = "closewrite" /\ piped' = piped /\ pc'["parent"] = pc["parent"]
        /\ pc'["child"] \in {"dest", "read"}
    BY <1>5, <1>6 DEF ChildCloses, At
  <2>2. ChildLeft(pc'["child"]) \in {2, 3} /\ ChildLeft(pc["child"]) = 4
    BY <2>1 DEF ChildLeft
  <2> QED BY <1>2, <1>4, <2>1, <2>2
<1>7. CASE OpenDest
  <2>1. /\ pc["child"] = "dest" /\ piped' = piped /\ pc'["parent"] = pc["parent"]
        /\ pc'["child"] = "read"
    BY <1>5, <1>7 DEF OpenDest, At
  <2>2. ChildLeft(pc'["child"]) = 2 /\ ChildLeft(pc["child"]) = 3
    BY <2>1 DEF ChildLeft
  <2> QED BY <1>2, <1>4, <2>1, <2>2
<1>8. CASE ChildRead
  <2>1. /\ pc["child"] = "read" /\ piped > 0 /\ piped' = piped - Least(Chunk, piped)
        /\ pc'["parent"] = pc["parent"] /\ pc'["child"] \in {"copy", "read"}
    BY <1>5, <1>8 DEF ChildRead, At
  <2>2. ChildLeft(pc'["child"]) \in {2, 3} /\ ChildLeft(pc["child"]) = 2
    BY <2>1 DEF ChildLeft
  <2>3. piped' \in Nat /\ piped' + 1 <= piped
    BY <1>2, <2>1, ConstantsOK DEF Least
  <2> QED BY <1>2, <1>4, <2>1, <2>2, <2>3
<1>9. CASE EndOfFile
  <2>1. /\ pc["child"] = "read" /\ piped' = piped /\ pc'["parent"] = pc["parent"]
        /\ pc'["child"] = "print"
    BY <1>5, <1>9 DEF EndOfFile, At
  <2>2. ChildLeft(pc'["child"]) = 1 /\ ChildLeft(pc["child"]) = 2
    BY <2>1 DEF ChildLeft
  <2> QED BY <1>2, <1>4, <2>1, <2>2
<1>10. CASE Copy
  <2>1. /\ pc["child"] = "copy" /\ piped' = piped /\ pc'["parent"] = pc["parent"]
        /\ pc'["child"] = "read"
    BY <1>5, <1>10 DEF Copy, At
  <2>2. ChildLeft(pc'["child"]) = 2 /\ ChildLeft(pc["child"]) = 3
    BY <2>1 DEF ChildLeft
  <2> QED BY <1>2, <1>4, <2>1, <2>2
<1>11. CASE Finish
  <2>1. Alive("child") /\ ExitOf("child") /\ UNCHANGED <<pos, held, piped, count, k>>
    BY <1>11 DEF Finish, At, Alive, input
  <2> QED BY <1>1, <2>1, EndWork
<1> QED BY <1>6, <1>7, <1>8, <1>9, <1>10, <1>11 DEF Child

(* No run goes on for ever, for any files, sizes and kills, and by         *)
(* NeverStuck it stops only when both have ended.                          *)
THEOREM WorkEnds == Spec => WorkShrinks
<1>1. IInv /\ [Next]_vars => [Shrinks]_vars
  <2> SUFFICES ASSUME IInv, Next PROVE Shrinks
    OBVIOUS
  <2>1. TypeOK
    BY DEF IInv
  <2>2. ASSUME NEW p \in Procs, Kill(p) PROVE Work' < Work
    <3>1. Alive(p) /\ ExitOf(p) /\ UNCHANGED <<pos, held, piped, count, k>>
      BY <2>2 DEF Kill, input
    <3> QED BY <2>1, <3>1, EndWork
  <2> QED BY <2>1, <2>2, WorkTypes, ParentWork, ChildWork DEF Next, Shrinks
<1> QED BY <1>1, Invariant, PTL DEF Spec, WorkShrinks

=============================================================================
