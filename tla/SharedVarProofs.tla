-------------------------- MODULE SharedVarProofs ---------------------------
(***************************************************************************)
(* Proofs about SharedVar, for any number of rounds and of kills.          *)
(***************************************************************************)
EXTENDS SharedVar, SequenceTheorems, TLAPS

Before == {"start", "get", "got", "fork", "attach", "clear"}
Round  == {"test", "flag", "n", "wait", "remove"}

(* How often the child has cleared flag, and the parent has set it.        *)
Clears == Len(taken) + (IF build = "O0" /\ pc["child"] \in {"arg", "num"} THEN 1 ELSE 0)
Sets   == Clears + flag

(* The parent: its loop says what is in n, and whether flag may be set.    *)
ParentOK ==
    /\ pc["parent"] \in Before \cup Round \cup {"ended"}
    /\ pc["parent"] \in Before =>
          /\ flag = 0 /\ n = 0 /\ i = 1 /\ taken = <<>>
          /\ pc["child"] \in {"none", "exec", "attach", "test", "ended"}
    /\ pc["parent"] \in Round => n = IF build = "O2" /\ pc["parent"] = "flag" THEN i ELSE i - 1
    /\ pc["parent"] \in {"test", "flag", "n"} => i <= Rounds
    /\ pc["parent"] = "flag" => flag = 0
    /\ pc["parent"] = "n" /\ build = "O2" => flag = 0

(* While the child runs flag is set exactly when the parent is one number  *)
(* ahead, and n is the number of that round or a neighbour of it.          *)
Ahead ==
    Alive("child") =>
        /\ pc["parent"] \in Round => Sets = IF build = "O0" /\ pc["parent"] = "n" THEN i ELSE i - 1
        /\ build = "O0" => n \in {Sets - 1, Sets}
        /\ build = "O2" => n \in {Sets, Sets + 1} /\ (flag = 1 => n = Sets)

ChildOK ==
    /\ pc["child"] \in {"none", "exec", "attach", "test", "flag", "arg", "num", "ended"}
    /\ pc["child"] = "flag" => flag = 1
    /\ pc["child"] = "arg" /\ build = "O2" => flag = 1
    /\ pc["child"] = "flag" /\ build = "O2" => arg = Len(taken) + 1
    /\ pc["child"] = "num" => build = "O0" /\ arg >= Len(taken) /\ arg <= n

IInv == TypeOK /\ ParentOK /\ Ahead /\ ChildOK /\ Handover

LEMMA RoundsOK == Rounds \in Nat \ {0}
BY RoundsAssumption

LEMMA TakenOK ==
    ASSUME TypeOK
    PROVE  Len(taken) \in Nat /\ Clears \in Nat /\ Sets \in Nat
<1>1. Len(taken) \in Nat /\ flag \in {0, 1}
  BY DEF TypeOK
<1> QED BY <1>1 DEF Clears, Sets

LEMMA InitIInv == Init => IInv
<1> SUFFICES ASSUME Init PROVE IInv
  OBVIOUS
<1> USE RoundsOK DEF Init
<1>1. TypeOK
  <2>1. taken \in Seq([num : 0..Rounds, arg : 0..Rounds])
    OBVIOUS
  <2>2. pc \in [Procs -> Points] /\ sig \in [Procs -> {"none", "pending", "handling"}]
    BY DEF Procs, Points
  <2>3. n \in 0..Rounds /\ i \in 1..(Rounds + 1) /\ arg \in 0..Rounds /\ kills \in 0..MaxKills
    BY KillsAssumption
  <2> QED BY <2>1, <2>2, <2>3 DEF TypeOK
<1>2. ParentOK /\ Ahead /\ ChildOK
  BY DEF ParentOK, Ahead, ChildOK, Before, Round, Alive
<1>3. Handover
  BY DEF Handover
<1> QED BY <1>1, <1>2, <1>3 DEF IInv

(* A step that only ends processes, or changes what the loops do not use.  *)
LEMMA EndsIInv ==
    ASSUME IInv, TypeOK', UNCHANGED <<build, shared, i, arg, taken>>,
           \A p \in Procs : pc'[p] = pc[p] \/ pc'[p] = "ended"
    PROVE  IInv'
<1> USE DEF IInv
<1>1. /\ pc'["parent"] = pc["parent"] \/ pc'["parent"] = "ended"
      /\ pc'["child"] = pc["child"] \/ pc'["child"] = "ended"
  BY DEF Procs
<1>2. UNCHANGED <<build, flag, n, i, arg, taken>>
  BY DEF shared
<1>3. ParentOK'
  BY <1>1, <1>2 DEF ParentOK, Before, Round
<1>4. ChildOK'
  BY <1>1, <1>2 DEF ChildOK
<1>5. Ahead'
  <2> SUFFICES ASSUME Alive("child")' PROVE Ahead'
    BY DEF Ahead
  <2>1. pc'["child"] = pc["child"] /\ Alive("child")
    BY <1>1 DEF Alive
  <2>2. Sets' = Sets
    BY <1>2, <2>1 DEF Sets, Clears
  <2> QED BY <1>1, <1>2, <2>1, <2>2 DEF Ahead, Round
<1>6. Handover'
  BY <1>2 DEF Handover
<1> QED BY <1>3, <1>4, <1>5, <1>6

-----------------------------------------------------------------------------
(* Types.                                                                  *)

LEMMA SetupType == TypeOK /\ Setup => TypeOK'
<1> SUFFICES ASSUME TypeOK, Setup PROVE TypeOK'
  OBVIOUS
<1> USE DEF TypeOK, At, Go, ExitOf, Points, Procs, fixed, shared, life, ghosts
<1>1. CASE Signal
  BY <1>1 DEF Signal
<1>2. CASE Shmget
  BY <1>2 DEF Shmget
<1>3. CASE Assign
  BY <1>3 DEF Assign
<1>4. CASE Fork
  BY <1>4 DEF Fork
<1>5. CASE ForkFails
  BY <1>5 DEF ForkFails
<1> QED BY <1>1, <1>2, <1>3, <1>4, <1>5 DEF Setup

LEMMA AttachType == ASSUME TypeOK, NEW p \in Procs, Attach(p) PROVE TypeOK'
BY DEF TypeOK, Attach, At, Go, ExitOf, Points, Procs, fixed, shared, life, ghosts

LEMMA ParentType ==
    ASSUME IInv, Clear \/ ParentTest \/ SetFlag \/ SetN \/ Wait \/ Remove
    PROVE  TypeOK'
<1> USE RoundsOK DEF IInv, TypeOK, At, Go, ExitOf, Points, Procs, fixed, shared, life, ghosts, ParentOK, NextRound
<1>1. CASE Clear
  BY <1>1 DEF Clear
<1>2. CASE ParentTest
  BY <1>2 DEF ParentTest
<1>3. CASE SetFlag
  BY <1>3 DEF SetFlag
<1>4. CASE SetN
  BY <1>4 DEF SetN
<1>5. CASE Wait
  BY <1>5 DEF Wait
<1>6. CASE Remove
  BY <1>6 DEF Remove
<1> QED BY <1>1, <1>2, <1>3, <1>4, <1>5, <1>6

LEMMA ShowType ==
    ASSUME TypeOK, NEW num \in 0..Rounds, Show(num)
    PROVE  /\ taken' \in Seq([num : 0..Rounds, arg : 0..Rounds])
           /\ pc' \in [Procs -> Points]
           /\ sig' \in [Procs -> {"none", "pending", "handling"}]
<1>1. [num |-> num, arg |-> arg] \in [num : 0..Rounds, arg : 0..Rounds]
  BY DEF TypeOK
<1>2. taken' \in Seq([num : 0..Rounds, arg : 0..Rounds])
  BY <1>1 DEF TypeOK, Show
<1> QED BY <1>2 DEF Show, TypeOK, Go, ExitOf, Procs, Points

LEMMA ChildType ==
    ASSUME TypeOK, Exec \/ ChildTest \/ ClearFlag \/ ReadArg \/ ReadNum
    PROVE  TypeOK'
<1>1. CASE Exec
  BY <1>1 DEF Exec, TypeOK, At, ExitOf, Points, Procs, fixed, shared, life, ghosts
<1>2. CASE ChildTest
  BY <1>2 DEF ChildTest, TypeOK, At, Go, Points, Procs, fixed, shared, life, ghosts
<1>3. CASE ClearFlag /\ build = "O0"
  BY <1>3 DEF ClearFlag, TypeOK, At, Go, Points, Procs, fixed, life, ghosts
<1>4. CASE ClearFlag /\ build # "O0"
  <2>1. Show(arg) /\ arg \in 0..Rounds
    BY <1>4 DEF ClearFlag, TypeOK
  <2> QED BY <1>4, <2>1, ShowType DEF ClearFlag, TypeOK, fixed, life, ghosts
<1>5. CASE ReadArg
  BY <1>5 DEF ReadArg, TypeOK, At, Go, Points, Procs, fixed, shared, life, ghosts
<1>6. CASE ReadNum
  <2>1. Show(n) /\ n \in 0..Rounds
    BY <1>6 DEF ReadNum, TypeOK
  <2> QED BY <1>6, <2>1, ShowType DEF ReadNum, TypeOK, fixed, shared, life, ghosts
<1> QED BY <1>1, <1>2, <1>3, <1>4, <1>5, <1>6

LEMMA SignalType ==
    ASSUME TypeOK, Interrupt \/ \E p \in Procs : Handler(p) \/ Kill(p)
    PROVE  TypeOK'
<1> USE DEF TypeOK, Points, ExitOf, fixed, shared, life, ghosts
<1>1. CASE Interrupt
  BY <1>1 DEF Interrupt
<1>2. ASSUME NEW p \in Procs, HandlerRemoves(p) PROVE TypeOK'
  BY <1>2 DEF HandlerRemoves
<1>3. ASSUME NEW p \in Procs, HandlerKills(p) PROVE TypeOK'
  BY <1>3 DEF HandlerKills
<1>4. ASSUME NEW p \in Procs, Kill(p) PROVE TypeOK'
  BY <1>4, KillsAssumption DEF Kill
<1> QED BY <1>1, <1>2, <1>3, <1>4 DEF Handler

-----------------------------------------------------------------------------
(* Steps that end processes.                                               *)

LEMMA SignalIInv ==
    ASSUME IInv, Interrupt \/ \E p \in Procs : Handler(p) \/ Kill(p)
    PROVE  IInv'
<1>1. TypeOK'
  BY SignalType DEF IInv
<1>2. UNCHANGED <<build, shared, i, arg, taken>>
  BY DEF Interrupt, Handler, HandlerRemoves, HandlerKills, Kill, fixed
<1>3. \A p \in Procs : pc'[p] = pc[p] \/ pc'[p] = "ended"
  <2> USE DEF IInv, TypeOK
  <2>1. CASE Interrupt
    BY <2>1 DEF Interrupt
  <2>2. ASSUME NEW p \in Procs, HandlerRemoves(p) \/ HandlerKills(p) \/ Kill(p)
        PROVE  \A q \in Procs : pc'[q] = pc[q] \/ pc'[q] = "ended"
    BY <2>2 DEF HandlerRemoves, HandlerKills, Kill, ExitOf
  <2> QED BY <2>1, <2>2 DEF Handler
<1> QED BY <1>1, <1>2, <1>3, EndsIInv

-----------------------------------------------------------------------------
(* The parent.                                                             *)

LEMMA SetupIInv == IInv /\ Setup => IInv'
<1> SUFFICES ASSUME IInv, Setup PROVE IInv'
  OBVIOUS
<1>1. TypeOK'
  BY SetupType DEF IInv
<1>2. UNCHANGED <<build, shared, i, arg, taken>>
  BY DEF Setup, Signal, Shmget, Assign, Fork, ForkFails, fixed
<1>3. /\ pc["parent"] \in Before /\ pc'["parent"] \in Before \cup {"ended"}
      /\ pc'["child"] = pc["child"] \/ pc'["child"] \in {"attach", "exec"}
  BY DEF Setup, Signal, Shmget, Assign, Fork, ForkFails, At, Go, ExitOf, Before, IInv, TypeOK, Procs
<1>4. flag = 0 /\ n = 0 /\ i = 1 /\ taken = <<>> /\ Len(taken) = 0
      /\ pc["child"] \in {"none", "exec", "attach", "test", "ended"}
  BY <1>3 DEF IInv, ParentOK
<1>5. UNCHANGED <<flag, n>>
  BY <1>2 DEF shared
<1>6. ParentOK' /\ ChildOK'
  BY <1>2, <1>3, <1>4, <1>5 DEF ParentOK, ChildOK, Before, Round
<1>7. Ahead'
  <2>1. Sets' = 0
    BY <1>2, <1>3, <1>4, <1>5 DEF Sets, Clears
  <2> QED BY <1>2, <1>3, <1>4, <1>5, <2>1 DEF Ahead, Before, Round
<1>8. Handover'
  BY <1>2 DEF Handover, IInv
<1> QED BY <1>1, <1>6, <1>7, <1>8 DEF IInv

LEMMA AttachIInv == ASSUME IInv, NEW p \in Procs, Attach(p) PROVE IInv'
<1>1. TypeOK'
  BY AttachType DEF IInv
<1>2. UNCHANGED <<build, shared, i, arg, taken, flag, n>>
  BY DEF Attach, fixed, shared
<1>3. CASE ExitOf(p)
  BY <1>1, <1>2, <1>3, EndsIInv DEF ExitOf, IInv, TypeOK
<1>4. CASE p = "parent" /\ Go(p, "clear")
  <2>1. pc["parent"] = "attach" /\ pc'["parent"] = "clear" /\ pc'["child"] = pc["child"]
    BY <1>4 DEF Attach, At, Go, IInv, TypeOK, Procs
  <2> QED BY <1>1, <1>2, <2>1
      DEF IInv, ParentOK, ChildOK, Ahead, Handover, Sets, Clears, Alive, Before, Round
<1>5. CASE p = "child" /\ Go(p, "test")
  <2>1. pc["child"] = "attach" /\ pc'["child"] = "test" /\ pc'["parent"] = pc["parent"]
    BY <1>5 DEF Attach, At, Go, IInv, TypeOK, Procs
  <2> QED BY <1>1, <1>2, <2>1
      DEF IInv, ParentOK, ChildOK, Ahead, Handover, Sets, Clears, Alive, Before, Round
<1> QED BY <1>3, <1>4, <1>5 DEF Attach, Procs

(* What all steps of the parent's loop have in common.                     *)
LEMMA ParentFrame ==
    ASSUME IInv, Clear \/ ParentTest \/ SetFlag \/ SetN \/ Wait
    PROVE  /\ UNCHANGED <<build, arg, taken>> /\ pc'["child"] = pc["child"]
           /\ Clears' = Clears /\ Handover'
<1>1. UNCHANGED <<build, arg, taken>> /\ pc'["child"] = pc["child"]
  BY DEF Clear, ParentTest, SetFlag, SetN, Wait, Go, IInv, TypeOK, Procs, fixed
<1> QED BY <1>1 DEF Clears, Handover, IInv

LEMMA ClearIInv == IInv /\ Clear => IInv'
<1> SUFFICES ASSUME IInv, Clear PROVE IInv'
  OBVIOUS
<1>1. TypeOK'
  BY ParentType
<1>2. pc["parent"] = "clear" /\ pc'["parent"] = "test" /\ flag' = 0 /\ n' = n /\ i' = i
  BY DEF Clear, At, Go, IInv, TypeOK, Procs
<1>3. flag = 0 /\ n = 0 /\ i = 1 /\ taken = <<>> /\ Len(taken) = 0
      /\ pc["child"] \in {"none", "exec", "attach", "test", "ended"}
  BY <1>2 DEF IInv, ParentOK, Before
<1>4. Sets' = 0
  BY <1>2, <1>3, ParentFrame DEF Sets, Clears
<1> QED BY <1>1, <1>2, <1>3, <1>4, ParentFrame, RoundsOK
    DEF IInv, ParentOK, ChildOK, Ahead, Before, Round

LEMMA ParentTestIInv == IInv /\ ParentTest => IInv'
<1> SUFFICES ASSUME IInv, ParentTest PROVE IInv'
  OBVIOUS
<1>1. TypeOK'
  BY ParentType
<1>2. /\ pc["parent"] = "test" /\ pc'["parent"] = IF build = "O0" THEN "flag" ELSE "n"
      /\ flag = 0 /\ UNCHANGED <<flag, n, i>>
  BY DEF ParentTest, At, Go, IInv, TypeOK, Procs, shared
<1>3. Sets' = Sets
  BY <1>2, ParentFrame DEF Sets
<1> QED BY <1>1, <1>2, <1>3, ParentFrame
    DEF IInv, ParentOK, ChildOK, Ahead, Alive, Before, Round

LEMMA SetFlagIInv == IInv /\ SetFlag => IInv'
<1> SUFFICES ASSUME IInv, SetFlag PROVE IInv'
  OBVIOUS
<1>1. TypeOK'
  BY ParentType
<1>2. /\ pc["parent"] = "flag" /\ flag = 0 /\ flag' = 1 /\ n' = n /\ i <= Rounds
      /\ pc'["parent"] = IF build = "O0" THEN "n" ELSE NextRound
      /\ i' = IF build = "O0" THEN i ELSE i + 1
  BY DEF SetFlag, At, Go, IInv, TypeOK, ParentOK, Procs
<1>3. Sets' = Sets + 1 /\ Sets \in Nat /\ i \in Nat
  BY <1>2, ParentFrame, TakenOK DEF Sets, IInv, TypeOK
<1>4. NextRound \in {"test", "wait"} /\ (NextRound = "test" => i + 1 <= Rounds)
  BY <1>3, RoundsOK DEF NextRound
<1>5. ParentOK'
  BY <1>2, <1>3, <1>4, ParentFrame DEF IInv, ParentOK, TypeOK, Before, Round
<1>6. Ahead'
  BY <1>2, <1>3, <1>4, ParentFrame DEF IInv, ParentOK, TypeOK, Ahead, Alive, Round
<1>7. ChildOK'
  BY <1>2, ParentFrame DEF IInv, ChildOK
<1> QED BY <1>1, <1>5, <1>6, <1>7, ParentFrame DEF IInv

LEMMA SetNIInv == IInv /\ SetN => IInv'
<1> SUFFICES ASSUME IInv, SetN PROVE IInv'
  OBVIOUS
<1>1. TypeOK'
  BY ParentType
<1>2. /\ pc["parent"] = "n" /\ flag' = flag /\ n' = i /\ i <= Rounds /\ n = i - 1
      /\ pc'["parent"] = IF build = "O2" THEN "flag" ELSE NextRound
      /\ i' = IF build = "O2" THEN i ELSE i + 1
  BY DEF SetN, At, Go, IInv, TypeOK, ParentOK, Round, Procs
<1>3. Sets' = Sets /\ Sets \in Nat /\ i \in Nat
  BY <1>2, ParentFrame, TakenOK DEF Sets, IInv, TypeOK
<1>4. NextRound \in {"test", "wait"} /\ (NextRound = "test" => i + 1 <= Rounds)
  BY <1>3, RoundsOK DEF NextRound
<1>5. ParentOK'
  BY <1>2, <1>3, <1>4, ParentFrame DEF IInv, ParentOK, TypeOK, Before, Round
<1>6. Ahead'
  BY <1>2, <1>3, <1>4, ParentFrame DEF IInv, ParentOK, TypeOK, Ahead, Alive, Round
<1>7. ChildOK'
  <2>1. arg \in Nat /\ (arg <= n => arg <= n')
    BY <1>2, <1>3, RoundsOK DEF IInv, TypeOK
  <2> QED BY <1>2, <2>1, ParentFrame DEF IInv, ChildOK
<1> QED BY <1>1, <1>5, <1>6, <1>7, ParentFrame DEF IInv

LEMMA WaitIInv == IInv /\ Wait => IInv'
<1> SUFFICES ASSUME IInv, Wait PROVE IInv'
  OBVIOUS
<1>1. TypeOK'
  BY ParentType
<1>2. /\ pc["parent"] = "wait" /\ pc'["parent"] = "remove" /\ UNCHANGED <<flag, n, i>>
      /\ ~Alive("child")
  BY DEF Wait, At, Go, Ended, Alive, IInv, TypeOK, Procs, shared
<1> QED BY <1>1, <1>2, ParentFrame DEF IInv, ParentOK, ChildOK, Ahead, Alive, Before, Round

LEMMA RemoveIInv == IInv /\ Remove => IInv'
<1> SUFFICES ASSUME IInv, Remove PROVE IInv'
  OBVIOUS
<1>1. TypeOK'
  BY ParentType
<1>2. UNCHANGED <<build, shared, i, arg, taken>> /\ \A p \in Procs : pc'[p] = pc[p] \/ pc'[p] = "ended"
  BY DEF Remove, ExitOf, IInv, TypeOK, fixed
<1> QED BY <1>1, <1>2, EndsIInv

-----------------------------------------------------------------------------
(* The child.                                                              *)

LEMMA ExecIInv == IInv /\ Exec => IInv'
<1> SUFFICES ASSUME IInv, Exec PROVE IInv'
  OBVIOUS
<1>1. TypeOK'
  BY ChildType DEF IInv
<1>2. UNCHANGED <<build, shared, i, arg, taken, flag, n>>
  BY DEF Exec, fixed, shared
<1>3. /\ pc["child"] = "exec" /\ pc'["parent"] = pc["parent"]
      /\ pc'["child"] \in {"attach", "ended"}
  BY DEF Exec, At, ExitOf, IInv, TypeOK, Procs
<1> QED BY <1>1, <1>2, <1>3
    DEF IInv, ParentOK, ChildOK, Ahead, Handover, Sets, Clears, Alive, Before, Round

LEMMA ChildTestIInv == IInv /\ ChildTest => IInv'
<1> SUFFICES ASSUME IInv, ChildTest PROVE IInv'
  OBVIOUS
<1>1. TypeOK'
  BY ChildType DEF IInv
<1>2. UNCHANGED <<build, i, arg, taken, flag, n>>
  BY DEF ChildTest, fixed, shared
<1>3. /\ pc["child"] = "test" /\ pc'["parent"] = pc["parent"] /\ flag = 1
      /\ pc'["child"] = IF build = "O0" THEN "flag" ELSE "arg"
  BY DEF ChildTest, At, Go, IInv, TypeOK, Procs
<1>4. pc["parent"] \notin Before /\ build \in {"O0", "O2"}
  BY <1>3 DEF IInv, ParentOK, TypeOK
<1>5. Sets' = Sets /\ Alive("child")
  BY <1>2, <1>3 DEF Sets, Clears, Alive
<1> QED BY <1>1, <1>2, <1>3, <1>4, <1>5
    DEF IInv, ParentOK, ChildOK, Ahead, Handover, Alive, Round

(* The number of the round goes to the end of what was taken.              *)
LEMMA ShowHandover ==
    ASSUME TypeOK, Handover, NEW num \in 0..Rounds, Show(num), build' = build,
           build = "O2" => num = Len(taken) + 1 /\ arg = Len(taken) + 1,
           arg \in Len(taken)..(Len(taken) + 2), num \in arg..(Len(taken) + 2)
    PROVE  /\ Handover' /\ Len(taken') = Len(taken) + 1
           /\ pc'["parent"] = pc["parent"] /\ pc'["child"] \in {"test", "ended"}
<1> DEFINE e == [num |-> num, arg |-> arg]
<1>1. taken' = Append(taken, e) /\ e.num = num /\ e.arg = arg
  BY DEF Show
<1>2. e \in [num : 0..Rounds, arg : 0..Rounds]
  BY DEF TypeOK
<1> HIDE DEF e
<1>3. /\ Len(taken') = Len(taken) + 1 /\ taken'[Len(taken) + 1] = e /\ Len(taken) \in Nat
      /\ \A k \in 1..Len(taken) : taken'[k] = taken[k]
  BY <1>1, <1>2 DEF TypeOK
<1>4. ASSUME NEW k \in 1..Len(taken')
      PROVE  /\ build = "O2" => taken'[k].num = k /\ taken'[k].arg = k
             /\ taken'[k].arg \in (k - 1)..(k + 1)
             /\ taken'[k].num \in taken'[k].arg..(k + 1)
  <2>1. CASE k \in 1..Len(taken)
    BY <1>3, <2>1 DEF Handover
  <2>2. CASE k = Len(taken) + 1
    <3>1. taken'[k].num = num /\ taken'[k].arg = arg /\ k - 1 = Len(taken) /\ k + 1 = Len(taken) + 2
      BY <1>1, <1>3, <2>2
    <3> QED BY <2>2, <3>1
  <2> QED BY <1>3, <2>1, <2>2
<1>5. pc'["parent"] = pc["parent"] /\ pc'["child"] \in {"test", "ended"}
  BY DEF Show, Go, ExitOf, TypeOK, Procs
<1> QED BY <1>3, <1>4, <1>5 DEF Handover

LEMMA ClearFlagIInv == IInv /\ ClearFlag => IInv'
<1> SUFFICES ASSUME IInv, ClearFlag PROVE IInv'
  OBVIOUS
<1>1. TypeOK'
  BY ChildType DEF IInv
<1>2. /\ pc["child"] = "flag" /\ flag = 1 /\ flag' = 0 /\ UNCHANGED <<build, n, i, arg>>
      /\ Len(taken) \in Nat /\ Alive("child")
  BY TakenOK DEF ClearFlag, At, IInv, ChildOK, fixed, Alive
<1>3. Sets = Len(taken) + 1 /\ pc["parent"] \notin Before
  BY <1>2 DEF Sets, Clears, IInv, ParentOK
<1>4. CASE build = "O0"
  <2>1. taken' = taken /\ pc'["child"] = "arg" /\ pc'["parent"] = pc["parent"]
    BY <1>4 DEF ClearFlag, Go, IInv, TypeOK, Procs
  <2>2. Sets' = Sets
    BY <1>2, <1>3, <1>4, <2>1 DEF Sets, Clears
  <2> QED BY <1>1, <1>2, <1>3, <1>4, <2>1, <2>2
      DEF IInv, ParentOK, ChildOK, Ahead, Handover, Alive, Before, Round
<1>5. CASE build = "O2"
  <2>1. arg = Len(taken) + 1 /\ Show(arg) /\ arg \in 0..Rounds
    BY <1>2, <1>5 DEF ClearFlag, IInv, ChildOK, TypeOK
  <2>2. /\ Handover' /\ Len(taken') = Len(taken) + 1
        /\ pc'["parent"] = pc["parent"] /\ pc'["child"] \in {"test", "ended"}
    BY <1>2, <1>5, <2>1, ShowHandover DEF IInv
  <2>3. Sets' = Sets
    BY <1>2, <1>3, <1>5, <2>2 DEF Sets, Clears
  <2> QED BY <1>1, <1>2, <1>3, <1>5, <2>2, <2>3
      DEF IInv, ParentOK, ChildOK, Ahead, Alive, Before, Round
<1> QED BY <1>4, <1>5 DEF IInv, TypeOK

LEMMA ReadArgIInv == IInv /\ ReadArg => IInv'
<1> SUFFICES ASSUME IInv, ReadArg PROVE IInv'
  OBVIOUS
<1>1. TypeOK'
  BY ChildType DEF IInv
<1>2. /\ pc["child"] = "arg" /\ UNCHANGED <<build, flag, n, i, taken>> /\ arg' = n
      /\ pc'["parent"] = pc["parent"] /\ pc'["child"] = IF build = "O0" THEN "num" ELSE "flag"
      /\ Len(taken) \in Nat /\ Alive("child") /\ n \in Nat /\ flag \in {0, 1}
  BY TakenOK DEF ReadArg, At, Go, IInv, TypeOK, Alive, Procs, fixed, shared
<1>3. Sets' = Sets /\ pc["parent"] \notin Before
  BY <1>2 DEF Sets, Clears, IInv, ParentOK, TypeOK
<1>4. build = "O2" => n = Len(taken) + 1
  BY <1>2 DEF IInv, Ahead, ChildOK, Sets, Clears
<1>5. build = "O0" => n >= Len(taken)
  BY <1>2 DEF IInv, Ahead, Sets, Clears
<1> QED BY <1>1, <1>2, <1>3, <1>4, <1>5
    DEF IInv, TypeOK, ParentOK, ChildOK, Ahead, Handover, Alive, Round

LEMMA ReadNumIInv == IInv /\ ReadNum => IInv'
<1> SUFFICES ASSUME IInv, ReadNum PROVE IInv'
  OBVIOUS
<1>1. TypeOK'
  BY ChildType DEF IInv
<1>2. /\ pc["child"] = "num" /\ UNCHANGED <<build, flag, n, i, arg>> /\ build = "O0" /\ Show(n)
      /\ Len(taken) \in Nat /\ Alive("child") /\ n \in 0..Rounds /\ arg \in Nat /\ flag \in {0, 1}
  BY TakenOK, RoundsOK DEF ReadNum, At, IInv, TypeOK, ChildOK, Alive, fixed, shared
<1>3. Sets = Len(taken) + 1 + flag /\ pc["parent"] \notin Before
  BY <1>2 DEF Sets, Clears, IInv, ParentOK
<1>4. n <= Len(taken) + 2 /\ arg >= Len(taken) /\ arg <= n
  BY <1>2, <1>3, RoundsOK DEF IInv, Ahead, ChildOK
<1>5. /\ Handover' /\ Len(taken') = Len(taken) + 1
      /\ pc'["parent"] = pc["parent"] /\ pc'["child"] \in {"test", "ended"}
  BY <1>2, <1>4, RoundsOK, ShowHandover DEF IInv
<1>6. Sets' = Sets
  BY <1>2, <1>3, <1>5 DEF Sets, Clears
<1> QED BY <1>1, <1>2, <1>3, <1>5, <1>6
    DEF IInv, ParentOK, ChildOK, Ahead, Alive, Before, Round

-----------------------------------------------------------------------------
LEMMA StepIInv == IInv /\ [Next]_vars => IInv'
<1> SUFFICES ASSUME IInv, [Next]_vars PROVE IInv'
  OBVIOUS
<1>1. CASE Setup
  BY <1>1, SetupIInv
<1>2. ASSUME NEW p \in Procs, Attach(p) PROVE IInv'
  BY <1>2, AttachIInv
<1>3. CASE Clear \/ ParentTest \/ SetFlag \/ SetN \/ Wait \/ Remove
  BY <1>3, ClearIInv, ParentTestIInv, SetFlagIInv, SetNIInv, WaitIInv, RemoveIInv
<1>4. CASE Exec \/ ChildTest \/ ClearFlag \/ ReadArg \/ ReadNum
  BY <1>4, ExecIInv, ChildTestIInv, ClearFlagIInv, ReadArgIInv, ReadNumIInv
<1>5. CASE Interrupt \/ \E p \in Procs : Handler(p) \/ Kill(p)
  BY <1>5, SignalIInv
<1>6. CASE UNCHANGED vars
  <2>1. TypeOK'
    BY <1>6 DEF IInv, TypeOK, vars, fixed, shared, life, ghosts
  <2> QED BY <1>6, <2>1, EndsIInv DEF vars, fixed
<1> QED BY <1>1, <1>2, <1>3, <1>4, <1>5, <1>6 DEF Next, Parent, Child, Procs

LEMMA Invariant == Spec => []IInv
BY InitIInv, StepIInv, PTL DEF Spec

(* Every variable keeps its type (part1.c, part2.c, part_exec.c).          *)
THEOREM TypeCorrect == Spec => []TypeOK
<1>1. IInv => TypeOK
  BY DEF IInv
<1> QED BY <1>1, Invariant, PTL

(* The child takes the numbers in order, exactly when the build writes n   *)
(* before flag, and never more than one off otherwise, whoever is killed   *)
(* (part1.c:78-109, part_exec.c:38-46).                                    *)
THEOREM HandsOverInOrder == Spec => []Handover
<1>1. IInv => Handover
  BY DEF IInv
<1> QED BY <1>1, Invariant, PTL
-----------------------------------------------------------------------------
(* The segment.  It is there only as long as the parent is, or a handler   *)
(* has removed something else.                                             *)
Tidy ==
    /\ pc["parent"] \in {"start", "get"} => seg = "none"
    /\ pc["parent"] \in {"start", "get", "got"} => ~known
    /\ \A p \in Procs : sig[p] = "handling" => seg = "removed" \/ ~foreign
    /\ seg = "there" /\ kills = 0 /\ ~forkFailed /\ foreign => Alive("parent")

LEMMA InitTidy == Init => Tidy
BY DEF Init, Tidy, Alive, Procs

LEMMA SetupTidy == TypeOK /\ Tidy /\ Setup => Tidy'
<1> SUFFICES ASSUME TypeOK, Tidy, Setup PROVE Tidy'
  OBVIOUS
<1> USE DEF Tidy, TypeOK, At, Go, ExitOf, Alive, Procs, life, ghosts
<1>1. CASE Signal
  BY <1>1 DEF Signal
<1>2. CASE Shmget
  BY <1>2 DEF Shmget
<1>3. CASE Assign
  BY <1>3 DEF Assign
<1>4. CASE Fork
  BY <1>4 DEF Fork
<1>5. CASE ForkFails
  BY <1>5 DEF ForkFails
<1> QED BY <1>1, <1>2, <1>3, <1>4, <1>5 DEF Setup

LEMMA LoopTidy ==
    ASSUME TypeOK, Tidy,
           \/ \E p \in Procs : Attach(p)
           \/ Clear \/ ParentTest \/ SetFlag \/ SetN \/ Wait \/ Remove
           \/ Exec \/ ChildTest \/ ClearFlag \/ ReadArg \/ ReadNum
    PROVE  Tidy'
<1> USE DEF Tidy, TypeOK, At, Go, ExitOf, Alive, Procs, life, ghosts, NextRound
<1>1. ASSUME NEW p \in Procs, Attach(p) PROVE Tidy'
  BY <1>1 DEF Attach
<1>2. CASE Clear \/ ParentTest \/ SetFlag \/ SetN \/ Wait
  BY <1>2 DEF Clear, ParentTest, SetFlag, SetN, Wait
<1>3. CASE Remove
  BY <1>3 DEF Remove
<1>4. CASE Exec \/ ChildTest \/ ReadArg
  BY <1>4 DEF Exec, ChildTest, ReadArg
<1>5. CASE ClearFlag \/ ReadNum
  BY <1>5 DEF ClearFlag, ReadNum, Show
<1> QED BY <1>1, <1>2, <1>3, <1>4, <1>5

LEMMA SignalTidy ==
    ASSUME TypeOK, Tidy, Interrupt \/ \E p \in Procs : Handler(p) \/ Kill(p)
    PROVE  Tidy'
<1> USE DEF Tidy, TypeOK, Alive, life, ghosts
<1>1. CASE Interrupt
  <2>1. \A p \in Procs : sig'[p] # "handling"
    BY <1>1 DEF Interrupt
  <2>2. pc'["parent"] = pc["parent"] \/ (pc["parent"] = "start" /\ pc'["parent"] = "ended")
    BY <1>1 DEF Interrupt, HasHandler, Procs
  <2> QED BY <1>1, <2>1, <2>2 DEF Interrupt
<1>2. ASSUME NEW p \in Procs, HandlerRemoves(p) PROVE Tidy'
  BY <1>2 DEF HandlerRemoves
<1>3. ASSUME NEW p \in Procs, HandlerKills(p) PROVE Tidy'
  BY <1>3 DEF HandlerKills, Procs
<1>4. ASSUME NEW p \in Procs, Kill(p) PROVE Tidy'
  BY <1>4 DEF Kill, ExitOf, Procs
<1> QED BY <1>1, <1>2, <1>3, <1>4 DEF Handler

LEMMA StepTidy == TypeOK /\ Tidy /\ [Next]_vars => Tidy'
<1> SUFFICES ASSUME TypeOK, Tidy, [Next]_vars PROVE Tidy'
  OBVIOUS
<1>1. CASE UNCHANGED vars
  BY <1>1 DEF Tidy, Alive, vars, life, ghosts
<1> QED BY <1>1, SetupTidy, LoopTidy, SignalTidy DEF Next, Parent, Child, Procs

(* When both have ended the segment is removed, in whatever order SIGINT,  *)
(* the handlers and the ends fall (part1.c:28-41, 111-120).                *)
THEOREM RemovesSegment == Spec => []CleanedUp
<1>1. Tidy => CleanedUp
  BY DEF Tidy, CleanedUp, AllEnded, Ended, Alive
<1>2. TypeOK /\ Tidy /\ [Next]_vars => Tidy'
  BY StepTidy
<1> QED BY <1>1, <1>2, InitTidy, TypeCorrect, PTL DEF Spec

-----------------------------------------------------------------------------
(* Neither process waits for the other for ever, nor goes on for ever.     *)

(* A step of the program, its child or their handlers is possible: the     *)
(* guards of Parent, Child and Handler.                                    *)
CanGoOn ==
    \/ \E p \in Procs : Alive(p) /\ sig[p] \in {"pending", "handling"}
    \/ sig["parent"] = "none" /\
          \/ pc["parent"] \in {"start", "get", "got", "fork", "attach", "clear", "flag", "n", "remove"}
          \/ pc["parent"] = "test" /\ flag = 0
          \/ pc["parent"] = "wait" /\ Ended("child")
    \/ sig["child"] = "none" /\
          \/ pc["child"] \in {"exec", "attach", "flag", "arg", "num"}
          \/ pc["child"] = "test" /\ flag = 1

(* The one waits for the other, which has been lost.                       *)
Deserted == pc["parent"] = "test" /\ ChildLost
Orphaned == pc["child"] = "test" /\ Ended("parent") /\ kills > 0

(* Who is there with whom.                                                 *)
TogetherOK ==
    /\ pc["parent"] \in {"start", "get", "got", "fork"} => pc["child"] = "none"
    /\ pc["parent"] \in {"attach", "clear"} \cup Round => pc["child"] # "none"
    /\ pc["parent"] = "wait" => i = Rounds + 1
    /\ pc["parent"] = "remove" => Ended("child")

(* The child ends with the last number, the parent may be a step behind.   *)
TakingOK ==
    /\ Len(taken) <= Rounds
    /\ Alive("child") => Len(taken) < Rounds
    /\ Len(taken) = Rounds => \/ pc["parent"] \in {"wait", "remove", "ended"}
                              \/ pc["parent"] = "n" /\ build = "O0" /\ i = Rounds

(* Who is alive after Ctrl-C has a signal, and the child alone has one too *)
(* if nobody was killed.                                                   *)
SignalsOK ==
    /\ ~interrupted => \A p \in Procs : sig[p] = "none"
    /\ interrupted => \A p \in Procs : Alive(p) => sig[p] # "none"
    /\ kills = 0 /\ Alive("child") /\ ~Alive("parent") => interrupted
    /\ Alive("parent") /\ seg = "removed" => interrupted

LiveInv == TogetherOK /\ TakingOK /\ SignalsOK

(* What each process, the signals and the outside can still do.            *)
ParentLeft ==
    LET before == 3 * Rounds + 3
        left   == 3 * (Rounds - i) + 3
    IN  CASE pc["parent"] = "start"  -> before + 5
          [] pc["parent"] = "get"    -> before + 4
          [] pc["parent"] = "got"    -> before + 3
          [] pc["parent"] = "fork"   -> before + 2
          [] pc["parent"] = "attach" -> before + 1
          [] pc["parent"] = "clear"  -> before
          [] pc["parent"] = "test"   -> left + 2
          [] pc["parent"] = "flag"   -> left + (IF build = "O0" THEN 1 ELSE 0)
          [] pc["parent"] = "n"      -> left + (IF build = "O2" THEN 1 ELSE 0)
          [] pc["parent"] = "wait"   -> 2
          [] pc["parent"] = "remove" -> 1
          [] OTHER -> 0

ChildLeft ==
    LET left == 4 * (Rounds - Len(taken))
    IN  CASE pc["child"] = "none"   -> 4 * Rounds + 3
          [] pc["child"] = "exec"   -> 4 * Rounds + 2
          [] pc["child"] = "attach" -> 4 * Rounds + 1
          [] pc["child"] = "test"   -> left
          [] pc["child"] = "flag"   -> left - (IF build = "O0" THEN 1 ELSE 2)
          [] pc["child"] = "arg"    -> left - (IF build = "O0" THEN 2 ELSE 1)
          [] pc["child"] = "num"    -> left - 3
          [] OTHER -> 0

SignalLeft(p) == IF sig[p] = "pending" THEN 2 ELSE IF sig[p] = "handling" THEN 1 ELSE 0
SignalsLeft == SignalLeft("parent") + SignalLeft("child") + (IF interrupted THEN 0 ELSE 5)

Work == ParentLeft + ChildLeft + SignalsLeft

Shrinks     == Work \in Nat /\ Work' < Work
WorkShrinks == [][Shrinks]_vars

LEMMA InitLive == Init => LiveInv
BY RoundsOK DEF Init, LiveInv, TogetherOK, TakingOK, SignalsOK, Round, Alive, Ended, Procs

LEMMA SetupLive == ASSUME IInv, LiveInv, Setup PROVE LiveInv'
<1>1. /\ pc["parent"] \in {"start", "get", "got", "fork"} /\ sig["parent"] # "handling"
      /\ pc["child"] = "none" /\ Len(taken) = 0
      /\ UNCHANGED <<build, i, taken, interrupted, kills>> /\ i \in Int
  <2>1. pc["parent"] \in {"start", "get", "got", "fork"} /\ sig["parent"] # "handling"
    BY DEF Setup, Signal, Shmget, Assign, Fork, ForkFails, At
  <2>2. pc["child"] = "none" /\ taken = <<>> /\ i \in Int
    BY <2>1 DEF LiveInv, TogetherOK, IInv, TypeOK, ParentOK, Before
  <2>3. UNCHANGED <<build, i, taken, interrupted, kills>>
    BY DEF Setup, Signal, Shmget, Assign, Fork, ForkFails, fixed, ghosts
  <2> QED BY <2>1, <2>2, <2>3
<1>2. \/ /\ pc'["child"] = "none" /\ pc'["parent"] \in {"get", "got", "fork"}
         /\ sig' = sig /\ (seg' = seg \/ seg' = "there")
      \/ /\ pc'["child"] = "none" /\ pc'["parent"] = "ended" /\ sig'["parent"] = "none"
         /\ sig'["child"] = sig["child"] /\ seg' = seg
      \/ /\ pc["parent"] = "fork" /\ sig["parent"] = "none" /\ sig' = sig /\ seg' = seg
         /\ pc'["parent"] = "attach" /\ pc'["child"] \in {"attach", "exec"}
  <2>1. CASE Signal \/ Assign
    BY <2>1, <1>1 DEF Signal, Assign, Go, IInv, TypeOK, Procs, life
  <2>2. CASE Shmget
    BY <2>2, <1>1 DEF Shmget, Go, ExitOf, IInv, TypeOK, Procs
  <2>3. CASE Fork
    BY <2>3 DEF Fork, At, life
  <2>4. CASE ForkFails
    BY <2>4, <1>1 DEF ForkFails, ExitOf, IInv, TypeOK, Procs, life
  <2> QED BY <2>1, <2>2, <2>3, <2>4 DEF Setup
<1>3. TogetherOK'
  BY <1>1, <1>2 DEF LiveInv, TogetherOK, Round
<1>4. TakingOK'
  BY <1>1, <1>2, RoundsOK DEF TakingOK
<1>5. SignalsOK'
  <2>1. Alive("parent") /\ ~Alive("child")
    BY <1>1 DEF Alive
  <2>2. ~interrupted => \A p \in Procs : sig'[p] = "none"
    BY <1>2 DEF LiveInv, SignalsOK, Procs
  <2>3. interrupted => \A p \in Procs : Alive(p)' => sig'[p] # "none"
    BY <1>1, <1>2, <2>1 DEF LiveInv, SignalsOK, Procs, Alive
  <2>4. kills = 0 /\ Alive("child")' /\ ~Alive("parent")' => interrupted
    BY <1>2 DEF Alive
  <2>5. Alive("parent")' /\ seg' = "removed" => interrupted
    BY <1>2, <2>1 DEF LiveInv, SignalsOK
  <2> QED BY <1>1, <2>2, <2>3, <2>4, <2>5 DEF SignalsOK
<1> QED BY <1>3, <1>4, <1>5 DEF LiveInv

(* A step of p outside its handler that ends nobody leaves signals alone.  *)
LEMMA GoesSignals ==
    ASSUME IInv, LiveInv, NEW p \in Procs, Alive(p), pc'[p] \notin {"none", "ended"},
           \A q \in Procs : q # p => pc'[q] = pc[q],
           UNCHANGED <<sig, seg, interrupted, kills>>
    PROVE  SignalsOK'
BY DEF LiveInv, SignalsOK, Alive, Procs

(* Nor does a step with which p ends, unless it leaves the child alone.    *)
LEMMA EndsSignals ==
    ASSUME IInv, LiveInv, NEW p \in Procs, sig[p] # "handling", ExitOf(p),
           UNCHANGED <<interrupted, kills>>, seg' = seg \/ p = "parent",
           p = "child" \/ ~Alive("child") \/ interrupted
    PROVE  SignalsOK'
<1>1. /\ pc'[p] = "ended" /\ sig'[p] = "none"
      /\ \A q \in Procs : q # p => pc'[q] = pc[q] /\ sig'[q] = sig[q]
  BY DEF ExitOf, IInv, TypeOK
<1> QED BY <1>1 DEF LiveInv, SignalsOK, Alive, Procs

LEMMA AttachLive == ASSUME IInv, LiveInv, NEW p \in Procs, Attach(p) PROVE LiveInv'
<1>1. /\ pc[p] = "attach" /\ sig[p] # "handling" /\ UNCHANGED <<build, i, taken, seg, interrupted, kills>>
      /\ Alive(p) /\ pc["child"] # "none"
  BY DEF Attach, At, fixed, life, ghosts, Alive, LiveInv, TogetherOK, Procs
<1>2. CASE ExitOf(p)
  <2>1. pc'[p] = "ended" /\ \A q \in Procs : q # p => pc'[q] = pc[q]
    BY <1>2 DEF ExitOf, IInv, TypeOK
  <2>2. p = "child" \/ interrupted
    <3>1. seg = "removed" \/ pc'[p] # "ended"
      BY DEF Attach, Go, IInv, TypeOK
    <3> QED BY <1>1, <2>1, <3>1 DEF LiveInv, SignalsOK, Procs
  <2>3. TogetherOK' /\ TakingOK'
    BY <1>1, <2>1, RoundsOK DEF LiveInv, TogetherOK, TakingOK, Round, Alive, Ended, Procs
  <2> QED BY <1>1, <1>2, <2>2, <2>3, EndsSignals DEF LiveInv
<1>3. CASE Go(p, IF p = "parent" THEN "clear" ELSE "test")
  <2>1. /\ pc'[p] = (IF p = "parent" THEN "clear" ELSE "test") /\ sig' = sig
        /\ \A q \in Procs : q # p => pc'[q] = pc[q]
    BY <1>3 DEF Go, IInv, TypeOK
  <2>2. TogetherOK' /\ TakingOK'
    BY <1>1, <2>1, RoundsOK DEF LiveInv, TogetherOK, TakingOK, Round, Alive, Ended, Procs
  <2> QED BY <1>1, <2>1, <2>2, GoesSignals DEF LiveInv
<1> QED BY <1>2, <1>3 DEF Attach

LEMMA LoopLive ==
    ASSUME IInv, LiveInv, Clear \/ ParentTest \/ SetFlag \/ SetN \/ Wait
    PROVE  LiveInv'
<1>1. /\ UNCHANGED <<build, taken, sig, seg, interrupted, kills>> /\ pc'["child"] = pc["child"]
      /\ Alive("parent") /\ pc'["parent"] \in {"test", "flag", "n", "wait", "remove"}
  BY DEF Clear, ParentTest, SetFlag, SetN, Wait, At, Go, IInv, TypeOK, Procs, fixed, life, ghosts,
         Alive, NextRound
<1>2. /\ i \in Int /\ Len(taken) \in Nat /\ build \in {"O0", "O2"} /\ Rounds \in Nat \ {0}
      /\ pc["parent"] \in {"test", "flag", "n"} => i <= Rounds
      /\ pc["parent"] = "clear" => Len(taken) = 0
      /\ pc["child"] # "none"
  <2>1. pc["parent"] \in {"clear", "test", "flag", "n", "wait"}
    BY DEF Clear, ParentTest, SetFlag, SetN, Wait, At
  <2>2. pc["child"] # "none"
    BY <2>1 DEF LiveInv, TogetherOK, Round
  <2>3. i \in Int /\ Len(taken) \in Nat /\ build \in {"O0", "O2"}
    BY DEF IInv, TypeOK
  <2> QED BY <2>2, <2>3, RoundsOK DEF IInv, ParentOK, Before
<1>3. SignalsOK'
  <2>1. "parent" \in Procs /\ \A q \in Procs : q # "parent" => pc'[q] = pc[q]
    BY <1>1 DEF Procs
  <2> QED BY <1>1, <2>1, GoesSignals
<1>4. ASSUME Clear \/ ParentTest PROVE TogetherOK' /\ TakingOK'
  <2>1. /\ pc["parent"] \in {"clear", "test"} /\ pc'["parent"] \in {"test", "flag", "n"} /\ i' = i
    BY <1>4 DEF Clear, ParentTest, At, Go, IInv, TypeOK, Procs
  <2> QED BY <1>1, <1>2, <2>1 DEF LiveInv, TogetherOK, TakingOK, Round, Alive
<1>5. ASSUME SetFlag PROVE TogetherOK' /\ TakingOK'
  <2>1. /\ pc["parent"] = "flag"
        /\ \/ pc'["parent"] = "n" /\ i' = i
           \/ pc'["parent"] = (IF i < Rounds THEN "test" ELSE "wait") /\ i' = i + 1
    BY <1>5 DEF SetFlag, At, Go, IInv, TypeOK, Procs, NextRound
  <2> QED BY <1>1, <1>2, <2>1 DEF LiveInv, TogetherOK, TakingOK, Round, Alive
<1>6. ASSUME SetN PROVE TogetherOK' /\ TakingOK'
  <2>1. /\ pc["parent"] = "n"
        /\ \/ build = "O2" /\ pc'["parent"] = "flag" /\ i' = i
           \/ /\ build = "O0" /\ i' = i + 1
              /\ pc'["parent"] = (IF i < Rounds THEN "test" ELSE "wait")
    BY <1>2, <1>6 DEF SetN, At, Go, IInv, TypeOK, Procs, NextRound
  <2> QED BY <1>1, <1>2, <2>1 DEF LiveInv, TogetherOK, TakingOK, Round, Alive
<1>7. ASSUME Wait PROVE TogetherOK' /\ TakingOK'
  <2>1. pc["parent"] = "wait" /\ pc'["parent"] = "remove" /\ i' = i /\ Ended("child")
    BY <1>7 DEF Wait, At, Go, IInv, TypeOK, Procs
  <2> QED BY <1>1, <1>2, <2>1 DEF LiveInv, TogetherOK, TakingOK, Round, Alive, Ended
<1> QED BY <1>3, <1>4, <1>5, <1>6, <1>7 DEF LiveInv

LEMMA RemoveLive == ASSUME IInv, LiveInv, Remove PROVE LiveInv'
<1>1. /\ pc["parent"] = "remove" /\ sig["parent"] # "handling" /\ ExitOf("parent")
      /\ UNCHANGED <<build, i, taken, interrupted, kills>> /\ Ended("child")
  BY DEF Remove, At, fixed, ghosts, LiveInv, TogetherOK
<1>2. pc'["parent"] = "ended" /\ pc'["child"] = pc["child"]
  BY <1>1 DEF ExitOf, IInv, TypeOK, Procs
<1>3. TogetherOK' /\ TakingOK'
  BY <1>1, <1>2 DEF LiveInv, TogetherOK, TakingOK, Round, Alive, Ended
<1>4. SignalsOK'
  <2>1. "parent" \in Procs /\ ~Alive("child")
    BY <1>1 DEF Procs, Alive, Ended
  <2> QED BY <1>1, <2>1, EndsSignals
<1> QED BY <1>3, <1>4 DEF LiveInv

(* The last number is taken when the parent has handed it over.            *)
LEMMA ShowTaking ==
    ASSUME IInv, LiveInv, NEW num, Show(num), pc["child"] = (IF build = "O0" THEN "num" ELSE "flag"),
           UNCHANGED <<build, i>>
    PROVE  TakingOK' /\ TogetherOK' /\ (pc'["child"] = "test" \/ ExitOf("child"))
           /\ pc'["parent"] = pc["parent"]
<1>1. /\ Len(taken) \in Nat /\ i \in Int /\ Rounds \in Nat \ {0} /\ flag \in {0, 1}
      /\ build \in {"O0", "O2"} /\ Len(taken) < Rounds /\ Alive("child")
  BY RoundsOK DEF IInv, TypeOK, LiveInv, TakingOK, Alive
<1>2. Len(taken') = Len(taken) + 1
  BY DEF Show, IInv, TypeOK
<1>3. /\ pc'["parent"] = pc["parent"]
      /\ pc'["child"] = (IF Len(taken) + 1 < Rounds THEN "test" ELSE "ended")
      /\ pc'["child"] = "test" \/ ExitOf("child")
  BY DEF Show, Go, ExitOf, IInv, TypeOK, Procs
<1>4. pc["parent"] \in Round \cup {"ended"}
  BY <1>1 DEF IInv, ParentOK, Before
<1>5. ASSUME Len(taken) + 1 = Rounds
      PROVE  \/ pc["parent"] \in {"wait", "remove", "ended"}
             \/ pc["parent"] = "n" /\ build = "O0" /\ i = Rounds
  <2>1. CASE build = "O0"
    <3>1. Sets = Rounds + flag
      BY <1>1, <1>5, <2>1 DEF Sets, Clears
    <3>2. pc["parent"] \in Round => Sets = IF pc["parent"] = "n" THEN i ELSE i - 1
      BY <1>1, <2>1 DEF IInv, Ahead
    <3>3. pc["parent"] \in {"test", "flag", "n"} => i <= Rounds
      BY DEF IInv, ParentOK
    <3> QED BY <1>1, <1>4, <2>1, <3>1, <3>2, <3>3 DEF Round
  <2>2. CASE build = "O2"
    <3>1. Sets = Rounds
      BY <1>1, <1>5, <2>2 DEF Sets, Clears, IInv, ChildOK
    <3>2. pc["parent"] \in Round => Sets = i - 1
      BY <1>1, <2>2 DEF IInv, Ahead
    <3>3. pc["parent"] \in {"test", "flag", "n"} => i <= Rounds
      BY DEF IInv, ParentOK
    <3> QED BY <1>1, <1>4, <3>1, <3>2, <3>3 DEF Round
  <2> QED BY <1>1, <2>1, <2>2
<1>6. TakingOK'
  BY <1>1, <1>2, <1>3, <1>5 DEF TakingOK, Alive
<1>7. TogetherOK'
  BY <1>1, <1>3 DEF LiveInv, TogetherOK, Ended, Alive, Round
<1> QED BY <1>3, <1>6, <1>7

LEMMA ChildLive ==
    ASSUME IInv, LiveInv, Exec \/ ChildTest \/ ClearFlag \/ ReadArg \/ ReadNum
    PROVE  LiveInv'
<1>1. /\ UNCHANGED <<build, i, seg, interrupted, kills>> /\ Alive("child") /\ sig["child"] # "handling"
      /\ "child" \in Procs /\ Rounds \in Nat \ {0} /\ build \in {"O0", "O2"}
  BY RoundsOK DEF Exec, ChildTest, ClearFlag, ReadArg, ReadNum, At, fixed, life, ghosts, Alive, Procs,
                  IInv, TypeOK
<1>2. ASSUME Exec \/ ChildTest \/ ReadArg \/ (ClearFlag /\ build = "O0")
      PROVE  LiveInv'
  <2>1. /\ taken' = taken /\ pc'["parent"] = pc["parent"]
        /\ \/ ExitOf("child") /\ pc'["child"] = "ended"
           \/ sig' = sig /\ pc'["child"] \notin {"none", "ended"}
    BY <1>1, <1>2 DEF Exec, ChildTest, ClearFlag, ReadArg, At, Go, ExitOf, IInv, TypeOK, Procs
  <2>2. TogetherOK' /\ TakingOK'
    BY <1>1, <2>1 DEF LiveInv, TogetherOK, TakingOK, Round, Alive, Ended
  <2>3. \A q \in Procs : q # "child" => pc'[q] = pc[q]
    BY <2>1 DEF Procs
  <2>4. SignalsOK'
    BY <1>1, <2>1, <2>3, GoesSignals, EndsSignals
  <2> QED BY <2>2, <2>4 DEF LiveInv
<1>3. ASSUME ReadNum \/ (ClearFlag /\ build # "O0") PROVE LiveInv'
  <2>1. PICK num : Show(num) /\ pc["child"] = (IF build = "O0" THEN "num" ELSE "flag")
    BY <1>1, <1>3 DEF ReadNum, ClearFlag, At, IInv, ChildOK
  <2>2. TakingOK' /\ TogetherOK' /\ (pc'["child"] = "test" \/ ExitOf("child"))
        /\ pc'["parent"] = pc["parent"]
    BY <1>1, <2>1, ShowTaking
  <2>3. ExitOf("child") \/ sig' = sig
    BY <2>1 DEF Show, Go
  <2>4. \A q \in Procs : q # "child" => pc'[q] = pc[q]
    BY <2>2 DEF Procs
  <2>5. ExitOf("child") \/ (sig' = sig /\ pc'["child"] \notin {"none", "ended"})
    BY <2>2, <2>3
  <2>6. SignalsOK'
    BY <1>1, <2>4, <2>5, GoesSignals, EndsSignals
  <2> QED BY <2>2, <2>6 DEF LiveInv
<1> QED BY <1>2, <1>3

LEMMA SignalLive ==
    ASSUME IInv, LiveInv, Interrupt \/ \E p \in Procs : Handler(p) \/ Kill(p)
    PROVE  LiveInv'
<1>1. UNCHANGED <<build, i, taken>> /\ Rounds \in Nat \ {0} /\ kills \in Nat
  BY RoundsOK DEF Interrupt, Handler, HandlerRemoves, HandlerKills, Kill, fixed, IInv, TypeOK
<1>2. \A p \in Procs : pc'[p] = pc[p] \/ (Alive(p) /\ pc'[p] = "ended")
  <2> USE DEF IInv, TypeOK
  <2>1. CASE Interrupt
    BY <2>1 DEF Interrupt
  <2>2. ASSUME NEW p \in Procs, HandlerRemoves(p) \/ HandlerKills(p) \/ Kill(p)
        PROVE  \A q \in Procs : pc'[q] = pc[q] \/ (Alive(q) /\ pc'[q] = "ended")
    BY <2>2 DEF HandlerRemoves, HandlerKills, Kill, ExitOf
  <2> QED BY <2>1, <2>2 DEF Handler
<1>3. TogetherOK' /\ TakingOK'
  BY <1>1, <1>2 DEF LiveInv, TogetherOK, TakingOK, Round, Alive, Ended, Procs
<1>4. SignalsOK'
  <2> USE DEF LiveInv, SignalsOK, Alive
  <2>1. CASE Interrupt
    <3>1. interrupted' /\ seg' = seg /\ \A p \in Procs : Alive(p)' => sig'[p] # "none"
      BY <2>1 DEF Interrupt, life
    <3> QED BY <3>1
  <2>2. ASSUME NEW p \in Procs, HandlerRemoves(p) PROVE SignalsOK'
    <3>1. /\ pc' = pc /\ kills' = kills /\ interrupted' = interrupted /\ sig[p] = "pending"
          /\ \A q \in Procs : sig'[q] = sig[q] \/ sig'[q] = "handling"
      BY <2>2 DEF HandlerRemoves, ghosts, IInv, TypeOK
    <3>2. interrupted
      BY <3>1
    <3> QED BY <3>1, <3>2
  <2>3. ASSUME NEW p \in Procs, HandlerKills(p) PROVE SignalsOK'
    <3>1. /\ \A q \in Procs : pc'[q] \in {"none", "ended"}
          /\ \A q \in Procs : sig'[q] = "none"
      BY <2>3 DEF HandlerKills
    <3> QED BY <3>1 DEF Procs
  <2>4. ASSUME NEW p \in Procs, Kill(p) PROVE SignalsOK'
    <3>1. /\ kills' # 0 /\ interrupted' = interrupted /\ seg' = seg
          /\ \A q \in Procs : q # p => pc'[q] = pc[q] /\ sig'[q] = sig[q]
          /\ pc'[p] = "ended" /\ sig'[p] = "none" /\ pc[p] \notin {"none", "ended"}
      BY <1>1, <2>4 DEF Kill, ExitOf, life, IInv, TypeOK
    <3> QED BY <3>1 DEF Procs
  <2> QED BY <2>1, <2>2, <2>3, <2>4 DEF Handler
<1> QED BY <1>3, <1>4 DEF LiveInv

LEMMA StepLive == IInv /\ LiveInv /\ [Next]_vars => LiveInv'
<1> SUFFICES ASSUME IInv, LiveInv, [Next]_vars PROVE LiveInv'
  OBVIOUS
<1>1. CASE UNCHANGED vars
  BY <1>1 DEF LiveInv, TogetherOK, TakingOK, SignalsOK, Round, Alive, Ended, vars, fixed, life, ghosts
<1> QED BY <1>1, SetupLive, AttachLive, LoopLive, RemoveLive, ChildLive, SignalLive
        DEF Next, Parent, Child, Procs

LEMMA LiveInvariant == Spec => [](IInv /\ LiveInv)
BY InitIInv, StepIInv, InitLive, StepLive, PTL DEF Spec

(* Parent and child never wait for each other over flag: if neither they   *)
(* nor their handlers can go on, both have ended, or one was lost with no  *)
(* Ctrl-C pressed; after Ctrl-C somebody can go on until both have ended.  *)
THEOREM NeverStuck == Spec => [](AllEnded \/ CanGoOn \/ (~interrupted /\ (Deserted \/ Orphaned)))
<1>1. IInv /\ LiveInv => AllEnded \/ CanGoOn \/ (~interrupted /\ (Deserted \/ Orphaned))
  <2> SUFFICES ASSUME IInv, LiveInv, ~AllEnded, ~CanGoOn
               PROVE  ~interrupted /\ (Deserted \/ Orphaned)
    OBVIOUS
  <2>1. /\ sig["parent"] \in {"none", "pending", "handling"}
        /\ sig["child"] \in {"none", "pending", "handling"}
        /\ Alive("parent") => sig["parent"] = "none"
        /\ Alive("child") => sig["child"] = "none"
    BY DEF CanGoOn, IInv, TypeOK, Procs
  <2>2. Alive("parent") \/ Alive("child")
    BY DEF AllEnded, Ended, Alive, IInv, ParentOK, Before, Round
  <2>3. ~interrupted
    BY <2>1, <2>2 DEF LiveInv, SignalsOK, Procs
  <2>4. Len(taken) \in Nat /\ i \in Int /\ flag \in {0, 1} /\ Rounds \in Nat \ {0}
    BY RoundsOK DEF IInv, TypeOK
  <2>5. Alive("child") => pc["child"] = "test" /\ flag = 0
    BY <2>1, <2>4 DEF CanGoOn, IInv, ChildOK, Alive
  <2>6. CASE Alive("parent")
    <3>1. \/ pc["parent"] = "test" /\ flag = 1
          \/ pc["parent"] = "wait" /\ ~Ended("child")
      BY <2>1, <2>4, <2>6 DEF CanGoOn, IInv, ParentOK, Before, Round, Alive
    <3>2. CASE pc["parent"] = "test" /\ flag = 1
      <4>1. Ended("child")
        BY <2>5, <3>2 DEF LiveInv, TogetherOK, Round, Alive, Ended
      <4>2. Len(taken) < Rounds
        BY <2>4, <3>2 DEF LiveInv, TakingOK
      <4> QED BY <2>3, <3>2, <4>1, <4>2 DEF Deserted, ChildLost
    <3>3. CASE pc["parent"] = "wait" /\ ~Ended("child")
      <4>1. Alive("child") /\ i = Rounds + 1
        BY <3>3 DEF LiveInv, TogetherOK, Round, Alive, Ended
      <4>2. Sets = i - 1 /\ Sets = Len(taken)
        BY <2>4, <2>5, <3>3, <4>1 DEF IInv, Ahead, Round, Sets, Clears
      <4> QED BY <2>4, <4>1, <4>2 DEF LiveInv, TakingOK
    <3> QED BY <3>1, <3>2, <3>3
  <2>7. CASE ~Alive("parent")
    <3>1. Alive("child") /\ Ended("parent")
      BY <2>2, <2>7 DEF Alive, Ended, IInv, ParentOK, Before, Round
    <3>2. kills \in Nat /\ kills # 0
      BY <2>3, <2>7, <3>1 DEF LiveInv, SignalsOK, IInv, TypeOK
    <3> QED BY <2>3, <2>5, <3>1, <3>2 DEF Orphaned
  <2> QED BY <2>6, <2>7
<1> QED BY <1>1, LiveInvariant, PTL

-----------------------------------------------------------------------------
(* What is left to do shrinks.                                             *)

ParentValues ==
    /\ ParentLeft \in Nat
    /\ Alive("parent") => ParentLeft >= 1
    /\ Ended("parent") => ParentLeft = 0
    /\ pc["parent"] = "start"  => ParentLeft = 3 * Rounds + 8
    /\ pc["parent"] = "get"    => ParentLeft = 3 * Rounds + 7
    /\ pc["parent"] = "got"    => ParentLeft = 3 * Rounds + 6
    /\ pc["parent"] = "fork"   => ParentLeft = 3 * Rounds + 5
    /\ pc["parent"] = "attach" => ParentLeft = 3 * Rounds + 4
    /\ pc["parent"] = "clear"  => ParentLeft = 3 * Rounds + 3
    /\ pc["parent"] = "test"   => ParentLeft = 3 * (Rounds - i) + 5
    /\ pc["parent"] = "flag"   => ParentLeft = 3 * (Rounds - i) + (IF build = "O0" THEN 4 ELSE 3)
    /\ pc["parent"] = "n"      => ParentLeft = 3 * (Rounds - i) + (IF build = "O2" THEN 4 ELSE 3)
    /\ pc["parent"] = "wait"   => ParentLeft = 2
    /\ pc["parent"] = "remove" => ParentLeft = 1

ChildValues ==
    /\ ChildLeft \in Nat
    /\ Alive("child") => ChildLeft >= 1
    /\ Ended("child") => ChildLeft = 0
    /\ pc["child"] = "none"   => ChildLeft = 4 * Rounds + 3
    /\ pc["child"] = "exec"   => ChildLeft = 4 * Rounds + 2
    /\ pc["child"] = "attach" => ChildLeft = 4 * Rounds + 1
    /\ pc["child"] = "test"   => ChildLeft = 4 * (Rounds - Len(taken))
    /\ pc["child"] = "flag"   => ChildLeft = 4 * (Rounds - Len(taken)) - (IF build = "O0" THEN 1 ELSE 2)
    /\ pc["child"] = "arg"    => ChildLeft = 4 * (Rounds - Len(taken)) - (IF build = "O0" THEN 2 ELSE 1)
    /\ pc["child"] = "num"    => ChildLeft = 4 * (Rounds - Len(taken)) - 3

LEMMA ParentRange == IInv => ParentValues
<1> SUFFICES ASSUME IInv PROVE ParentValues
  OBVIOUS
<1>1. Rounds \in Nat /\ i \in Int /\ (pc["parent"] \in {"test", "flag", "n"} => i <= Rounds)
  BY RoundsOK DEF IInv, TypeOK, ParentOK
<1>2. /\ build \in {"O0", "O2"}
      /\ pc["parent"] \in {"start", "get", "got", "fork", "attach", "clear", "test", "flag", "n",
                           "wait", "remove", "ended"}
  BY DEF IInv, TypeOK, ParentOK, Before, Round
<1> QED BY <1>1, <1>2 DEF ParentValues, ParentLeft, Alive, Ended

LEMMA ChildRange == IInv /\ LiveInv => ChildValues
<1> SUFFICES ASSUME IInv, LiveInv PROVE ChildValues
  OBVIOUS
<1> DEFINE k == Len(taken)
<1>1. Rounds \in Nat /\ k \in Nat /\ (Alive("child") => k < Rounds)
  BY RoundsOK DEF IInv, TypeOK, LiveInv, TakingOK
<1>2. /\ build \in {"O0", "O2"}
      /\ pc["child"] \in {"none", "exec", "attach", "test", "flag", "arg", "num", "ended"}
  BY DEF IInv, TypeOK, ChildOK
<1>3. CASE pc["child"] \in {"none", "exec", "attach", "ended"}
  BY <1>1, <1>3 DEF ChildValues, ChildLeft, Alive, Ended
<1>4. CASE pc["child"] \in {"test", "flag", "arg", "num"}
  <2>1. k < Rounds
    BY <1>1, <1>4 DEF Alive
  <2>2. /\ pc["child"] = "test" => ChildLeft = 4 * (Rounds - k)
        /\ pc["child"] = "flag" => ChildLeft = 4 * (Rounds - k) - (IF build = "O0" THEN 1 ELSE 2)
        /\ pc["child"] = "arg"  => ChildLeft = 4 * (Rounds - k) - (IF build = "O0" THEN 2 ELSE 1)
        /\ pc["child"] = "num"  => ChildLeft = 4 * (Rounds - k) - 3
    BY DEF ChildLeft
  <2> HIDE DEF k
  <2>3. ChildLeft \in Nat /\ ChildLeft >= 1
    BY <1>1, <1>2, <1>4, <2>1, <2>2
  <2> QED BY <1>4, <2>2, <2>3 DEF ChildValues, Alive, Ended, k
<1> QED BY <1>2, <1>3, <1>4

SignalValues == \A p \in Procs : SignalLeft(p) \in 0..2 /\ (sig[p] = "none" => SignalLeft(p) = 0)

LEMMA SignalRange == IInv => SignalValues
BY DEF SignalValues, SignalLeft

(* Each part of what is left shrinks or stays, and one of them shrinks.    *)
LEMMA Less ==
    ASSUME IInv, IInv', LiveInv, LiveInv',
           ParentLeft' <= ParentLeft, ChildLeft' <= ChildLeft, SignalsLeft' <= SignalsLeft,
           \/ ParentLeft' < ParentLeft
           \/ ChildLeft' < ChildLeft
           \/ SignalsLeft' < SignalsLeft
    PROVE  Shrinks
<1> DEFINE a == ParentLeft
           b == ChildLeft
           c == SignalsLeft
           x == ParentLeft'
           y == ChildLeft'
           z == SignalsLeft'
<1>1. Work = a + b + c /\ Work' = x + y + z
  BY DEF Work
<1>2. a \in Nat /\ b \in Nat
  BY ParentRange, ChildRange DEF ParentValues, ChildValues
<1>3. x \in Nat /\ y \in Nat
  <2>1. ParentValues' /\ ChildValues'
    BY ParentRange, ChildRange, PTL
  <2> QED BY <2>1 DEF ParentValues, ChildValues
<1>4. c \in Nat
  BY DEF SignalsLeft, SignalLeft
<1>5. z \in Nat
  BY DEF SignalsLeft, SignalLeft
<1>6. x <= a /\ y <= b /\ z <= c /\ (x < a \/ y < b \/ z < c)
  OBVIOUS
<1> HIDE DEF a, b, c, x, y, z
<1>7. x + y + z < a + b + c /\ a + b + c \in Nat
  BY <1>2, <1>3, <1>4, <1>5, <1>6
<1> QED BY <1>1, <1>7 DEF Shrinks

LEMMA SameSignals == ASSUME UNCHANGED <<sig, interrupted>> PROVE SignalsLeft' <= SignalsLeft
BY DEF SignalsLeft, SignalLeft

LEMMA SameChild ==
    ASSUME IInv, LiveInv, pc'["child"] = pc["child"], UNCHANGED <<build, taken>>
    PROVE  ChildLeft' <= ChildLeft
<1>1. ChildLeft' = ChildLeft
  BY DEF ChildLeft
<1> QED BY <1>1, ChildRange DEF ChildValues

LEMMA SameParent ==
    ASSUME IInv, pc'["parent"] = pc["parent"], UNCHANGED <<build, i>>
    PROVE  ParentLeft' <= ParentLeft
<1>1. ParentLeft' = ParentLeft
  BY DEF ParentLeft
<1> QED BY <1>1, ParentRange DEF ParentValues

(* With a step in which p ends, and the other process may end too.         *)
LEMMA EndsWork ==
    ASSUME IInv, IInv', LiveInv, LiveInv', NEW p \in Procs, Alive(p), pc'[p] = "ended",
           \A q \in Procs : pc'[q] = pc[q] \/ (Alive(q) /\ pc'[q] = "ended"),
           SignalsLeft' <= SignalsLeft, UNCHANGED <<build, i, taken>>
    PROVE  Shrinks
<1>1. ParentValues /\ ChildValues
  BY ParentRange, ChildRange
<1>2. ParentValues' /\ ChildValues'
  BY ParentRange, ChildRange, PTL
<1>3. "parent" \in Procs /\ "child" \in Procs
  BY DEF Procs
<1>4. ParentLeft' <= ParentLeft /\ (p = "parent" => ParentLeft' < ParentLeft)
  <2>1. CASE pc'["parent"] = pc["parent"]
    BY <2>1, SameParent DEF Alive
  <2>2. CASE Alive("parent") /\ pc'["parent"] = "ended"
    <3>1. ParentLeft >= 1 /\ ParentLeft \in Nat
      BY <1>1, <2>2 DEF ParentValues
    <3>2. ParentLeft' = 0
      BY <1>2, <2>2 DEF ParentValues, Ended
    <3> QED BY <3>1, <3>2
  <2> QED BY <1>3, <2>1, <2>2
<1>5. ChildLeft' <= ChildLeft /\ (p = "child" => ChildLeft' < ChildLeft)
  <2>1. CASE pc'["child"] = pc["child"]
    BY <2>1, SameChild DEF Alive
  <2>2. CASE Alive("child") /\ pc'["child"] = "ended"
    <3>1. ChildLeft >= 1 /\ ChildLeft \in Nat
      BY <1>1, <2>2 DEF ChildValues
    <3>2. ChildLeft' = 0
      BY <1>2, <2>2 DEF ChildValues, Ended
    <3> QED BY <3>1, <3>2
  <2> QED BY <1>3, <2>1, <2>2
<1>6. ParentLeft' < ParentLeft \/ ChildLeft' < ChildLeft
  BY <1>4, <1>5 DEF Procs
<1> QED BY <1>4, <1>5, <1>6, Less

LEMMA ExitWork ==
    ASSUME IInv, IInv', LiveInv, LiveInv', NEW p \in Procs, Alive(p), ExitOf(p),
           UNCHANGED <<build, i, taken, interrupted>>
    PROVE  Shrinks
<1>1. /\ pc'[p] = "ended" /\ sig'[p] = "none"
      /\ \A q \in Procs : q # p => pc'[q] = pc[q] /\ sig'[q] = sig[q]
  BY DEF ExitOf, IInv, TypeOK
<1>2. SignalsLeft' <= SignalsLeft
  BY <1>1 DEF SignalsLeft, SignalLeft, Procs
<1>3. \A q \in Procs : pc'[q] = pc[q] \/ (Alive(q) /\ pc'[q] = "ended")
  BY <1>1
<1> QED BY <1>1, <1>2, <1>3, EndsWork

(* A step with which only the parent, or only the child, gets ahead.       *)
LEMMA ParentGoes ==
    ASSUME IInv, IInv', LiveInv, LiveInv', pc'["child"] = pc["child"],
           UNCHANGED <<build, taken, sig, interrupted>>, ParentLeft' < ParentLeft
    PROVE  Shrinks
<1>1. ParentValues /\ ParentValues'
  BY ParentRange, PTL
<1>2. ParentLeft' <= ParentLeft
  BY <1>1 DEF ParentValues
<1> QED BY <1>2, SameChild, SameSignals, Less

LEMMA ChildGoes ==
    ASSUME IInv, IInv', LiveInv, LiveInv', pc'["parent"] = pc["parent"],
           UNCHANGED <<build, i, sig, interrupted>>, ChildLeft' < ChildLeft
    PROVE  Shrinks
<1>1. ChildValues /\ ChildValues'
  BY ChildRange, PTL
<1>2. ChildLeft' <= ChildLeft
  BY <1>1 DEF ChildValues
<1> QED BY <1>2, SameParent, SameSignals, Less

LEMMA SetupWork == ASSUME IInv, IInv', LiveInv, LiveInv', Setup PROVE Shrinks
<1>1. ParentValues /\ ParentValues' /\ ChildValues /\ ChildValues'
  BY ParentRange, ChildRange, PTL
<1>2. "parent" \in Procs /\ "child" \in Procs /\ Rounds \in Nat
  BY RoundsOK DEF Procs
<1>3. UNCHANGED <<build, i, taken, interrupted>>
  BY DEF Setup, Signal, Shmget, Assign, Fork, ForkFails, fixed, ghosts
<1>4. pc["parent"] \in {"start", "get", "got", "fork"} /\ Alive("parent")
  BY DEF Setup, Signal, Shmget, Assign, Fork, ForkFails, At, Alive
<1>5. CASE ExitOf("parent")
  BY <1>2, <1>3, <1>4, <1>5, ExitWork
<1>6. CASE Fork
  <2>1. /\ pc["parent"] = "fork" /\ pc'["parent"] = "attach" /\ pc["child"] = "none"
        /\ pc'["child"] \in {"attach", "exec"} /\ sig' = sig
    BY <1>6 DEF Fork, At, LiveInv, TogetherOK
  <2>2. ParentLeft' < ParentLeft
    BY <1>1, <1>2, <2>1 DEF ParentValues
  <2>3. ChildLeft' < ChildLeft
    BY <1>1, <1>2, <2>1 DEF ChildValues
  <2>4. ParentLeft' <= ParentLeft /\ ChildLeft' <= ChildLeft
    BY <1>1, <2>2, <2>3 DEF ParentValues, ChildValues
  <2> QED BY <1>3, <2>1, <2>2, <2>4, SameSignals, Less
<1>7. CASE ~ExitOf("parent") /\ ~Fork
  <2>1. /\ sig' = sig /\ pc'["child"] = pc["child"]
        /\ \/ pc["parent"] = "start" /\ pc'["parent"] = "get"
           \/ pc["parent"] = "get" /\ pc'["parent"] = "got"
           \/ pc["parent"] = "got" /\ pc'["parent"] = "fork"
    BY <1>7 DEF Setup, Signal, Shmget, Assign, ForkFails, At, Go, IInv, TypeOK, Procs
  <2>2. ParentLeft' < ParentLeft
    BY <1>1, <1>2, <2>1 DEF ParentValues
  <2> QED BY <1>3, <2>1, <2>2, ParentGoes
<1> QED BY <1>5, <1>6, <1>7

LEMMA AttachWork ==
    ASSUME IInv, IInv', LiveInv, LiveInv', NEW p \in Procs, Attach(p)
    PROVE  Shrinks
<1>1. ParentValues /\ ParentValues' /\ ChildValues /\ ChildValues'
  BY ParentRange, ChildRange, PTL
<1>2. pc[p] = "attach" /\ Alive(p) /\ UNCHANGED <<build, i, taken, interrupted>>
  BY DEF Attach, At, Alive, fixed, ghosts
<1>3. CASE ExitOf(p)
  BY <1>2, <1>3, ExitWork
<1>4. CASE ~ExitOf(p)
  <2>1. /\ sig' = sig /\ pc'[p] = (IF p = "parent" THEN "clear" ELSE "test")
        /\ \A q \in Procs : q # p => pc'[q] = pc[q]
    BY <1>4 DEF Attach, Go, IInv, TypeOK
  <2>2. CASE p = "parent"
    <3>1. ParentLeft' < ParentLeft
      BY <1>1, <1>2, <2>1, <2>2, RoundsOK DEF ParentValues
    <3> QED BY <1>2, <2>1, <2>2, <3>1, ParentGoes DEF Procs
  <2>3. CASE p = "child"
    <3>1. Len(taken) \in Nat
      BY DEF IInv, TypeOK
    <3>2. ChildLeft' = 4 * (Rounds - Len(taken)) /\ ChildLeft = 4 * Rounds + 1
      BY <1>1, <1>2, <2>1, <2>3 DEF ChildValues
    <3>3. ChildLeft' < ChildLeft
      BY <3>1, <3>2, RoundsOK
    <3> QED BY <1>2, <2>1, <2>3, <3>3, ChildGoes DEF Procs
  <2> QED BY <2>2, <2>3 DEF Procs
<1> QED BY <1>3, <1>4

LEMMA LoopWork ==
    ASSUME IInv, IInv', LiveInv, LiveInv', Clear \/ ParentTest \/ SetFlag \/ SetN \/ Wait
    PROVE  Shrinks
<1>1. ParentValues /\ ParentValues'
  BY ParentRange, PTL
<1>2. UNCHANGED <<build, taken, sig, interrupted>> /\ pc'["child"] = pc["child"]
  BY DEF Clear, ParentTest, SetFlag, SetN, Wait, Go, fixed, ghosts, IInv, TypeOK, Procs
<1>3. /\ Rounds \in Nat \ {0} /\ i \in Int /\ build \in {"O0", "O2"}
      /\ pc["parent"] = "clear" => i = 1
      /\ pc["parent"] \in {"flag", "n"} => i <= Rounds
  BY RoundsOK DEF IInv, TypeOK, ParentOK, Before
<1>4. CASE Clear
  <2>1. pc["parent"] = "clear" /\ pc'["parent"] = "test" /\ i' = i
    BY <1>4 DEF Clear, At, Go, IInv, TypeOK, Procs
  <2>2. ParentLeft' < ParentLeft
    BY <1>1, <1>3, <2>1 DEF ParentValues
  <2> QED BY <1>2, <2>2, ParentGoes
<1>5. CASE ParentTest
  <2>1. /\ pc["parent"] = "test" /\ i' = i
        /\ pc'["parent"] = (IF build = "O0" THEN "flag" ELSE "n")
    BY <1>5 DEF ParentTest, At, Go, IInv, TypeOK, Procs
  <2>2. ParentLeft' < ParentLeft
    BY <1>1, <1>2, <1>3, <2>1 DEF ParentValues
  <2> QED BY <1>2, <2>2, ParentGoes
<1>6. CASE (SetFlag /\ build = "O0") \/ (SetN /\ build = "O2")
  <2>1. /\ pc["parent"] = (IF build = "O0" THEN "flag" ELSE "n") /\ i' = i
        /\ pc'["parent"] = (IF build = "O0" THEN "n" ELSE "flag")
    BY <1>6 DEF SetFlag, SetN, At, Go, IInv, TypeOK, Procs
  <2>2. ParentLeft' < ParentLeft
    BY <1>1, <1>2, <1>3, <2>1 DEF ParentValues
  <2> QED BY <1>2, <2>2, ParentGoes
<1>7. CASE (SetFlag /\ build = "O2") \/ (SetN /\ build = "O0")
  <2>1. /\ pc["parent"] = (IF build = "O0" THEN "n" ELSE "flag") /\ i' = i + 1
        /\ pc'["parent"] = (IF i < Rounds THEN "test" ELSE "wait") /\ i <= Rounds
    BY <1>3, <1>7 DEF SetFlag, SetN, At, Go, NextRound, IInv, TypeOK, Procs
  <2>2. ParentLeft = 3 * (Rounds - i) + 3
    BY <1>1, <1>3, <2>1 DEF ParentValues
  <2>3. ParentLeft' = 3 * (Rounds - i) + 2 \/ ParentLeft' = 2
    BY <1>1, <1>3, <2>1 DEF ParentValues
  <2>4. ParentLeft' < ParentLeft
    BY <1>3, <2>1, <2>2, <2>3
  <2> QED BY <1>2, <2>4, ParentGoes
<1>8. CASE Wait
  <2>1. pc["parent"] = "wait" /\ pc'["parent"] = "remove" /\ i' = i
    BY <1>8 DEF Wait, At, Go, IInv, TypeOK, Procs
  <2>2. ParentLeft' < ParentLeft
    BY <1>1, <2>1 DEF ParentValues
  <2> QED BY <1>2, <2>2, ParentGoes
<1>9. build = "O0" \/ build = "O2"
  BY <1>3
<1> QED BY <1>4, <1>5, <1>6, <1>7, <1>8, <1>9

LEMMA ShowWork ==
    ASSUME IInv, IInv', LiveInv, LiveInv', NEW num \in 0..Rounds, Show(num),
           pc["child"] \in {"flag", "num"}, pc["child"] = "flag" => build = "O2",
           UNCHANGED <<build, i, interrupted>>
    PROVE  Shrinks
<1>1. ChildValues /\ ChildValues'
  BY ChildRange, PTL
<1>2. /\ Len(taken) \in Nat /\ Len(taken) < Rounds /\ Rounds \in Nat
      /\ Len(taken') = Len(taken) + 1
  BY RoundsOK DEF IInv, TypeOK, LiveInv, TakingOK, Alive, Show
<1>3. ChildLeft >= 4 * (Rounds - Len(taken)) - 3 /\ ChildLeft \in Nat
  BY <1>1, <1>2 DEF ChildValues
<1>4. /\ pc'["parent"] = pc["parent"] /\ sig'["parent"] = sig["parent"]
      /\ \/ pc'["child"] = "ended" /\ sig'["child"] = "none"
         \/ pc'["child"] = "test" /\ sig'["child"] = sig["child"]
  BY DEF Show, Go, ExitOf, IInv, TypeOK, Procs
<1>5. ChildLeft' = 0 \/ ChildLeft' = 4 * (Rounds - Len(taken'))
  BY <1>1, <1>4 DEF ChildValues, Ended
<1>6. ChildLeft' < ChildLeft
  BY <1>1, <1>2, <1>3, <1>4, <1>5 DEF ChildValues, Alive
<1>7. ChildLeft' <= ChildLeft
  BY <1>1, <1>6 DEF ChildValues
<1>8. SignalsLeft' <= SignalsLeft
  BY <1>4 DEF SignalsLeft, SignalLeft
<1> QED BY <1>4, <1>6, <1>7, <1>8, SameParent, Less

LEMMA ChildWork ==
    ASSUME IInv, IInv', LiveInv, LiveInv', Exec \/ ChildTest \/ ClearFlag \/ ReadArg \/ ReadNum
    PROVE  Shrinks
<1>1. ChildValues /\ ChildValues'
  BY ChildRange, PTL
<1>2. UNCHANGED <<build, i, interrupted>> /\ "child" \in Procs
  BY DEF Exec, ChildTest, ClearFlag, ReadArg, ReadNum, fixed, ghosts, Procs
<1>3. Rounds \in Nat /\ Len(taken) \in Nat /\ build \in {"O0", "O2"}
  BY RoundsOK DEF IInv, TypeOK
<1>4. CASE Exec
  <2>1. pc["child"] = "exec" /\ Alive("child") /\ taken' = taken
    BY <1>4 DEF Exec, At, Alive
  <2>2. CASE ExitOf("child")
    BY <1>2, <2>1, <2>2, ExitWork
  <2>3. CASE ~ExitOf("child")
    <3>1. pc'["child"] = "attach" /\ pc'["parent"] = pc["parent"] /\ sig' = sig
      BY <1>4, <2>3 DEF Exec, IInv, TypeOK, Procs
    <3>2. ChildLeft' < ChildLeft
      BY <1>1, <1>3, <2>1, <3>1 DEF ChildValues
    <3> QED BY <1>2, <3>1, <3>2, ChildGoes
  <2> QED BY <2>2, <2>3
<1>5. CASE ChildTest \/ (ClearFlag /\ build = "O0") \/ ReadArg
  <2>1. /\ taken' = taken /\ pc'["parent"] = pc["parent"] /\ sig' = sig
        /\ \/ pc["child"] = "test" /\ pc'["child"] = (IF build = "O0" THEN "flag" ELSE "arg")
           \/ pc["child"] = "flag" /\ build = "O0" /\ pc'["child"] = "arg"
           \/ pc["child"] = "arg" /\ pc'["child"] = (IF build = "O0" THEN "num" ELSE "flag")
    BY <1>5 DEF ChildTest, ClearFlag, ReadArg, At, Go, IInv, TypeOK, Procs
  <2>2. ChildLeft' < ChildLeft
    <3> DEFINE k == 4 * (Rounds - Len(taken))
    <3>1. k \in Int /\ 4 * (Rounds - Len(taken')) = k
      BY <1>3, <2>1
    <3>2. \/ ChildLeft = k /\ ChildLeft' = k - 1
          \/ ChildLeft = k - 1 /\ ChildLeft' = k - 2
          \/ ChildLeft = k - 2 /\ ChildLeft' = k - 3
      <4>1. CASE build = "O0"
        BY <1>1, <1>2, <2>1, <4>1 DEF ChildValues
      <4>2. CASE build = "O2"
        BY <1>1, <1>2, <2>1, <4>2 DEF ChildValues
      <4> QED BY <1>3, <4>1, <4>2
    <3> HIDE DEF k
    <3> QED BY <3>1, <3>2
  <2> QED BY <1>2, <2>1, <2>2, ChildGoes
<1>6. CASE ClearFlag /\ build = "O2"
  <2>1. pc["child"] = "flag" /\ Show(arg) /\ arg \in 0..Rounds
    BY <1>6 DEF ClearFlag, At, IInv, TypeOK
  <2> QED BY <1>2, <1>6, <2>1, ShowWork
<1>7. CASE ReadNum
  <2>1. pc["child"] = "num" /\ Show(n) /\ n \in 0..Rounds
    BY <1>7 DEF ReadNum, At, IInv, TypeOK
  <2> QED BY <1>2, <2>1, ShowWork
<1>8. build = "O0" \/ build = "O2"
  BY <1>3
<1> QED BY <1>4, <1>5, <1>6, <1>7, <1>8

LEMMA SignalWork ==
    ASSUME IInv, IInv', LiveInv, LiveInv', Interrupt \/ \E p \in Procs : Handler(p)
    PROVE  Shrinks
<1>1. UNCHANGED <<build, i, taken>>
  BY DEF Interrupt, Handler, HandlerRemoves, HandlerKills, fixed
<1>2. CASE Interrupt
  <2>1. Alive("parent") /\ ~interrupted /\ interrupted'
    BY <1>2 DEF Interrupt
  <2>2. SignalsLeft' < SignalsLeft
    <3>1. \A p \in Procs : sig[p] = "none"
      BY <2>1 DEF LiveInv, SignalsOK
    <3> QED BY <2>1, <3>1 DEF SignalsLeft, SignalLeft, Procs
  <2>3. SignalsLeft' <= SignalsLeft
    BY <2>2 DEF SignalsLeft, SignalLeft
  <2>4. \A q \in Procs : pc'[q] = pc[q] \/ (Alive(q) /\ pc'[q] = "ended")
    BY <1>2 DEF Interrupt
  <2>5. CASE \E p \in Procs : pc'[p] # pc[p]
    <3>1. PICK p \in Procs : Alive(p) /\ pc'[p] = "ended"
      BY <2>4, <2>5
    <3> QED BY <1>1, <2>3, <2>4, <3>1, EndsWork
  <2>6. CASE \A p \in Procs : pc'[p] = pc[p]
    <3>1. pc'["parent"] = pc["parent"] /\ pc'["child"] = pc["child"]
      BY <2>6 DEF Procs
    <3> QED BY <1>1, <2>2, <2>3, <3>1, SameParent, SameChild, Less
  <2> QED BY <2>5, <2>6
<1>3. ASSUME NEW p \in Procs, HandlerRemoves(p) PROVE Shrinks
  <2>1. /\ sig[p] = "pending" /\ sig'[p] = "handling" /\ pc' = pc /\ interrupted' = interrupted
        /\ \A q \in Procs : q # p => sig'[q] = sig[q]
    BY <1>3 DEF HandlerRemoves, ghosts, IInv, TypeOK
  <2>2. SignalsLeft' < SignalsLeft /\ SignalsLeft' <= SignalsLeft
    BY <2>1 DEF SignalsLeft, SignalLeft, Procs
  <2> QED BY <1>1, <2>1, <2>2, SameParent, SameChild, Less
<1>4. ASSUME NEW p \in Procs, HandlerKills(p) PROVE Shrinks
  <2>1. /\ Alive(p) /\ pc'[p] = "ended" /\ interrupted' = interrupted
        /\ \A q \in Procs : sig'[q] = "none" /\ (pc'[q] = pc[q] \/ (Alive(q) /\ pc'[q] = "ended"))
    BY <1>4 DEF HandlerKills, ghosts
  <2>2. SignalsLeft' <= SignalsLeft
    BY <2>1 DEF SignalsLeft, SignalLeft, Procs
  <2> QED BY <1>1, <2>1, <2>2, EndsWork
<1> QED BY <1>2, <1>3, <1>4 DEF Handler

LEMMA StepWork == ASSUME IInv, IInv', LiveInv, LiveInv', Next PROVE Shrinks
<1>1. "parent" \in Procs /\ "child" \in Procs
  BY DEF Procs
<1>2. CASE Remove
  <2>1. Alive("parent") /\ ExitOf("parent") /\ UNCHANGED <<build, i, taken, interrupted>>
    BY <1>2 DEF Remove, At, Alive, fixed, ghosts
  <2> QED BY <1>1, <2>1, ExitWork
<1>3. ASSUME NEW p \in Procs, Kill(p) PROVE Shrinks
  <2>1. Alive(p) /\ ExitOf(p) /\ UNCHANGED <<build, i, taken, interrupted>>
    BY <1>3 DEF Kill, fixed
  <2> QED BY <2>1, ExitWork
<1>4. CASE Attach("parent") \/ Attach("child")
  BY <1>1, <1>4, AttachWork
<1> QED
  BY <1>2, <1>3, <1>4, SetupWork, LoopWork, ChildWork, SignalWork DEF Next, Parent, Child

(* Every step of the parent, the child, their handlers, Ctrl-C and whoever *)
(* kills them uses up a bounded number of steps, in part1.c and part2.c    *)
(* and whatever the compiler made of them: as long as the program can go   *)
(* on it gets nearer to its end, so the loops that wait for flag are left. *)
THEOREM WorkEnds == Spec => WorkShrinks
<1>1. IInv /\ IInv' /\ LiveInv /\ LiveInv' /\ [Next]_vars => [Shrinks]_vars
  BY StepWork
<1>2. Spec => []IInv /\ []LiveInv
  BY LiveInvariant, PTL
<1> QED BY <1>1, <1>2, PTL DEF Spec, WorkShrinks

-----------------------------------------------------------------------------
(* How it ends.                                                            *)

(* The ends HandsOver names.                                               *)
Accounted ==
    \/ Len(taken) = Rounds
    \/ interrupted \/ forkFailed \/ kills > 0 \/ ChildLost
    \/ seg = "none"

(* A parent without a child stops only for one of these reasons, and has   *)
(* no segment before it made one.                                          *)
Childless ==
    /\ pc["parent"] \in {"start", "get"} => seg = "none" \/ interrupted
    /\ pc["child"] = "none" /\ Ended("parent") =>
          interrupted \/ forkFailed \/ kills > 0 \/ seg = "none"

LEMMA NextChildless == IInv /\ LiveInv /\ Childless /\ [Next]_vars => Childless'
<1> SUFFICES ASSUME IInv, LiveInv, Childless, [Next]_vars PROVE Childless'
  OBVIOUS
<1>0. /\ pc \in [Procs -> Points] /\ "parent" \in Procs /\ "child" \in Procs
      /\ "parent" # "child" /\ kills \in Nat
  BY KillsAssumption DEF IInv, TypeOK, Procs
<1>1. CASE Signal \/ Shmget
  BY <1>0, <1>1 DEF Signal, Shmget, At, Go, ExitOf, life, ghosts, Childless, Ended
<1>2. CASE Assign \/ Fork
  BY <1>0, <1>2 DEF Assign, Fork, At, Go, Childless, Ended
<1>3. CASE ForkFails
  BY <1>0, <1>3 DEF ForkFails, At, ExitOf, Childless, Ended
<1>4. ASSUME pc["child"] # "none", pc'["child"] # "none", pc'["parent"] \notin {"start", "get"}
      PROVE  Childless'
  BY <1>4 DEF Childless
<1>5. CASE Attach("parent") \/ Clear \/ ParentTest \/ SetFlag \/ SetN \/ Wait \/ Remove
  <2>1. pc["parent"] \in {"attach", "clear"} \cup Round
    BY <1>5 DEF Attach, Clear, ParentTest, SetFlag, SetN, Wait, Remove, At, Round
  <2>2. pc["child"] # "none"
    BY <2>1 DEF LiveInv, TogetherOK
  <2>3. pc'["child"] = pc["child"] /\ pc'["parent"] \notin {"start", "get"}
    BY <1>0, <1>5 DEF Attach, Clear, ParentTest, SetFlag, SetN, Wait, Remove, Go, ExitOf, NextRound
  <2> QED BY <1>4, <2>2, <2>3
<1>6. CASE Child
  <2>1. pc["child"] # "none" /\ pc'["child"] # "none" /\ pc'["parent"] = pc["parent"]
    BY <1>0, <1>6 DEF Child, Exec, Attach, ChildTest, ClearFlag, ReadArg, ReadNum, Show, At, Go, ExitOf
  <2>2. pc["parent"] \notin {"start", "get"}
    BY <2>1 DEF LiveInv, TogetherOK
  <2> QED BY <1>4, <2>1, <2>2
<1>7. CASE Interrupt
  BY <1>7 DEF Interrupt, Childless
<1>8. ASSUME NEW p \in Procs, HandlerRemoves(p) \/ HandlerKills(p) PROVE Childless'
  <2>1. interrupted /\ interrupted'
    BY <1>8 DEF HandlerRemoves, HandlerKills, ghosts, LiveInv, SignalsOK
  <2> QED BY <2>1 DEF Childless
<1>9. ASSUME NEW p \in Procs, Kill(p) PROVE Childless'
  <2>1. kills' > 0 /\ seg' = seg /\ interrupted' = interrupted
    BY <1>0, <1>9 DEF Kill, life
  <2>2. pc'["parent"] = pc["parent"] \/ pc'["parent"] = "ended"
    BY <1>0, <1>9 DEF Kill, ExitOf
  <2> QED BY <2>1, <2>2 DEF Childless
<1>10. CASE UNCHANGED vars
  BY <1>10 DEF vars, life, ghosts, Childless, Ended
<1> QED
  BY <1>1, <1>2, <1>3, <1>5, <1>6, <1>7, <1>8, <1>9, <1>10 DEF Next, Parent, Setup, Handler

(* When both have ended all numbers have been taken, or one of the things  *)
(* HandsOver names has happened: none of the programs gives up by itself   *)
(* (main).                                                                 *)
THEOREM EndsAccounted == Spec => [](AllEnded => Accounted)
<1>1. Init => Childless
  BY DEF Init, Childless, Ended
<1>2. IInv /\ LiveInv /\ Childless => (AllEnded => Accounted)
  <2> SUFFICES ASSUME IInv, LiveInv, Childless, AllEnded PROVE Accounted
    OBVIOUS
  <2>1. CASE pc["child"] = "none"
    BY <2>1 DEF AllEnded, Childless, Accounted
  <2>2. CASE pc["child"] # "none"
    <3>1. Ended("child")
      BY <2>2 DEF AllEnded, Alive, Ended
    <3>2. Len(taken) \in Nat /\ Len(taken) <= Rounds
      BY DEF IInv, TypeOK, LiveInv, TakingOK
    <3> QED BY <3>1, <3>2, RoundsOK DEF ChildLost, Accounted
  <2> QED BY <2>1, <2>2
<1> QED BY <1>1, <1>2, LiveInvariant, NextChildless, PTL DEF Spec
=============================================================================
