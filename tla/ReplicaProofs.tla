---------------------------- MODULE ReplicaProofs ---------------------------
(***************************************************************************)
(* What replicas can promise of one order, for every number of references, *)
(* local ids, faults and restarts.                                         *)
(*                                                                         *)
(* Any number of them: each asks order-management and tells the network at *)
(* most once (Within).  One of them: it asks and tells once, and holds no  *)
(* stock for refused demand, however late its sweep or its units run       *)
(* (Once).  One whose units also end inside their windows (Prompt): what   *)
(* the network was told is what is on record, and the pod implements       *)
(* AnswerProtocol (Single).                                                *)
(*                                                                         *)
(* Units and sweeps run side by side, so the argument is about who may     *)
(* write a row: a redelivery finds the row of the first delivery; a prompt *)
(* unit writes its row only before the window closes, a sweep only after.  *)
(***************************************************************************)
EXTENDS NetworkIntakeProofs, FiniteSetTheorems

\* The upsert of a unit of work, seen from outside.
LEMMA UpsertRow ==
  ASSUME Shape, NEW r \in Refs, NEW o \in Order, NEW e, SaveAndPublish(r, o, e)
  PROVE  /\ \A s \in Refs \ {r} : rows'[s] = rows[s] /\ events'[s] = events[s]
         /\ Exists(rows'[r])
         /\ rows'[r].state = o.state
         /\ rows'[r].acknowledgeBy =
              IF Exists(rows[r]) THEN rows[r].acknowledgeBy
              ELSE o.acknowledgeBy
<1>1. /\ rows'[r] = Upsert(rows[r], o)
      /\ \A s \in Refs \ {r} : rows'[s] = rows[s] /\ events'[s] = events[s]
  BY DEF SaveAndPublish, Shape, TypeOK
<1>2. CASE Exists(rows[r])
  <2>1. rows[r] \in Order
    BY <1>2 DEF Exists, Shape, TypeOK, NoOrder
  <2> QED BY <1>1, <1>2, <2>1 DEF Upsert, Exists, Order, State
<1>3. CASE ~Exists(rows[r])
  BY <1>1, <1>3 DEF Upsert, Exists, Order, State
<1> QED BY <1>1, <1>2, <1>3

-----------------------------------------------------------------------------
(***************************************************************************)
(* Any number of replicas.  Until an order has its row, any pod may take   *)
(* its demand up; once it has, none does again.  So each pod raises and    *)
(* tells each order at most once, whatever fails, restarts or is swept.    *)
(***************************************************************************)
Known == Safe /\ Punctual

HoldsOf(r) == {l \in LocalIds : holds[l].ref = r}

\* The pods that may yet raise an order, and those that may yet tell it.
Asking(r) ==
  {p \in Pods : unit[p].ref = r /\ unit[p].pc \in {"save", "raise"}}

Answering(r) ==
  {p \in Pods : unit[p].ref = r /\ unit[p].pc \notin {"idle", "release"}}

WithinOf(r) ==
  /\ ~Exists(rows[r]) => HoldsOf(r) = {} /\ answers[r] = <<>>
  /\ IsFiniteSet(HoldsOf(r))
  /\ Cardinality(HoldsOf(r)) + Cardinality(Asking(r)) <= Cardinality(Pods)
  /\ Len(answers[r]) + Cardinality(Answering(r)) <= Cardinality(Pods)

Within ==
  /\ \A r \in Refs : WithinOf(r)
  /\ \A p \in Pods :
       unit[p].pc \notin {"idle", "save"} => Exists(rows[unit[p].ref])

\* A subset is no larger, and smaller if an element is missing.
LEMMA Smaller ==
  ASSUME NEW S, IsFiniteSet(S), NEW T, T \subseteq S
  PROVE  /\ IsFiniteSet(T) /\ Cardinality(T) \in Nat
         /\ Cardinality(S) \in Nat /\ Cardinality(T) <= Cardinality(S)
         /\ \A x \in S : x \notin T => Cardinality(T) + 1 <= Cardinality(S)
<1>1. IsFiniteSet(T) /\ Cardinality(T) <= Cardinality(S)
  BY FS_Subset
<1>2. Cardinality(T) \in Nat /\ Cardinality(S) \in Nat
  BY <1>1, FS_CardinalityType
<1>3. ASSUME NEW x \in S, x \notin T
      PROVE  Cardinality(T) + 1 <= Cardinality(S)
  <2> DEFINE U == S \ {x}
  <2>1. IsFiniteSet(U) /\ Cardinality(U) = Cardinality(S) - 1
    BY FS_RemoveElement
  <2>2. T \in SUBSET U
    BY <1>3
  <2>3. Cardinality(T) <= Cardinality(U)
    BY <2>1, <2>2, FS_Subset
  <2> QED BY <1>2, <2>1, <2>3
<1> QED BY <1>1, <1>2, <1>3

\* One element more.
LEMMA OneMore ==
  ASSUME NEW S, IsFiniteSet(S), NEW x
  PROVE  /\ IsFiniteSet(S \cup {x})
         /\ Cardinality(S) \in Nat /\ Cardinality(S \cup {x}) \in Nat
         /\ Cardinality(S \cup {x}) <= Cardinality(S) + 1
  BY FS_AddElement, FS_CardinalityType

\* The pods at work on an order are finitely many.
LEMMA AtWork ==
  ASSUME IsFiniteSet(Pods), NEW r \in Refs
  PROVE  /\ IsFiniteSet(Asking(r)) /\ IsFiniteSet(Answering(r))
         /\ Asking(r) \subseteq Pods /\ Answering(r) \subseteq Pods
  BY Smaller DEF Asking, Answering

\* A step that raises nothing for an order and tells nothing of it.
LEMMA WithinFrame ==
  ASSUME IsFiniteSet(Pods), NEW r \in Refs, WithinOf(r),
         Exists(rows[r]) => Exists(rows'[r]),
         answers'[r] = answers[r], Len(answers[r]) \in Nat,
         HoldsOf(r)' \subseteq HoldsOf(r), Asking(r)' \subseteq Asking(r),
         Answering(r)' \subseteq Answering(r)
  PROVE  WithinOf(r)'
<1>1. /\ IsFiniteSet(HoldsOf(r)')
      /\ Cardinality(HoldsOf(r)') \in Nat /\ Cardinality(HoldsOf(r)) \in Nat
      /\ Cardinality(HoldsOf(r)') <= Cardinality(HoldsOf(r))
  BY Smaller DEF WithinOf
<1>2. /\ Cardinality(Asking(r)') \in Nat /\ Cardinality(Asking(r)) \in Nat
      /\ Cardinality(Asking(r)') <= Cardinality(Asking(r))
  BY AtWork, Smaller
<1>3. /\ Cardinality(Answering(r)') \in Nat /\ Cardinality(Answering(r)) \in Nat
      /\ Cardinality(Answering(r)') <= Cardinality(Answering(r))
  BY AtWork, Smaller
<1>4. Cardinality(Pods) \in Nat
  BY FS_CardinalityType
<1>5. ~Exists(rows'[r]) => HoldsOf(r)' = {} /\ answers'[r] = <<>>
  BY DEF WithinOf
<1>6. /\ Cardinality(HoldsOf(r)') + Cardinality(Asking(r)') <= Cardinality(Pods)
      /\ Len(answers'[r]) + Cardinality(Answering(r)') <= Cardinality(Pods)
  BY <1>1, <1>2, <1>3, <1>4 DEF WithinOf
<1> QED BY <1>1, <1>5, <1>6 DEF WithinOf

\* How the unit of a call goes on: never back to a call it has made.
LEMMA CallsGoOn ==
  ASSUME Shape, NEW p \in Pods, Step(p)
  PROVE  /\ \A q \in Pods \ {p} : unit'[q] = unit[q]
         /\ unit[p].ref \in Refs
         /\ \/ unit'[p] = IdleUnit
            \/ /\ unit'[p].ref = unit[p].ref
               /\ \/ unit[p].pc = "save" /\ unit'[p].pc \in {"raise", "commit"}
                  \/ /\ unit[p].pc \in {"raise", "cancel"}
                     /\ unit'[p].pc \in {"cancel", "commit"}
                  \/ unit[p].pc = "commit" /\ unit'[p].pc = "submit"
                  \/ unit[p].pc = "submit" /\ unit'[p].pc = "release"
<1> DEFINE u == unit[p]
<1>1. unit \in [Pods -> Unit] /\ u \in Unit
  BY DEF Shape, TypeOK
<1>2. u.ref \in Refs
  BY IntakeAssumption
  DEF Step, SaveReceived, RaiseHeldOrder, CancelHeldOrder, CommitAnswer,
      SubmitAcknowledgement, ReleaseHeldOrder, CallFails, Shape, UnitsCarry,
      Carries
<1>3. \E v : /\ unit' = [unit EXCEPT ![p] = v]
             /\ \/ v = IdleUnit
                \/ /\ v.ref = u.ref
                   /\ \/ u.pc = "save" /\ v.pc \in {"raise", "commit"}
                      \/ /\ u.pc \in {"raise", "cancel"}
                         /\ v.pc \in {"cancel", "commit"}
                      \/ u.pc = "commit" /\ v.pc = "submit"
                      \/ u.pc = "submit" /\ v.pc = "release"
  <2>1. CASE SaveReceived(p)
    <3> DEFINE c == [u EXCEPT !.pc = "raise"]
               d == [u EXCEPT !.pc = "commit", !.order = Reject(u.order)]
    <3>1. c.ref = u.ref /\ c.pc = "raise" /\ d.ref = u.ref /\ d.pc = "commit"
      BY <1>1 DEF Unit
    <3>2. u.pc = "save" /\ \E v \in {c, d, IdleUnit} : unit' = [unit EXCEPT ![p] = v]
      BY <2>1 DEF SaveReceived, Reply, Return
    <3> HIDE DEF c, d
    <3> QED BY <3>1, <3>2
  <2>2. CASE RaiseHeldOrder(p)
    <3> DEFINE c(l) == [u EXCEPT !.pc = "cancel", !.local = l]
               d(l) == [u EXCEPT !.pc = "commit", !.local = l,
                          !.order = LinkLocalOrder(Acknowledge(u.order), l)]
    <3>1. \A l : /\ c(l).ref = u.ref /\ c(l).pc = "cancel"
                 /\ d(l).ref = u.ref /\ d(l).pc = "commit"
      BY <1>1 DEF Unit
    <3>2. /\ u.pc = "raise"
          /\ \E l \in LocalIds : \E v \in {c(l), d(l), IdleUnit} :
               unit' = [unit EXCEPT ![p] = v]
      BY <2>2 DEF RaiseHeldOrder, Reply, Return
    <3> HIDE DEF c, d
    <3> QED BY <3>1, <3>2
  <2>3. CASE CancelHeldOrder(p)
    <3> DEFINE d == [u EXCEPT !.pc = "commit", !.order = Reject(u.order)]
    <3>1. d.ref = u.ref /\ d.pc = "commit"
      BY <1>1 DEF Unit
    <3>2. u.pc = "cancel" /\ \E v \in {d, IdleUnit} : unit' = [unit EXCEPT ![p] = v]
      BY <2>3 DEF CancelHeldOrder, Reply, Return
    <3> HIDE DEF d
    <3> QED BY <3>1, <3>2
  <2>4. CASE CommitAnswer(p)
    <3> DEFINE d == [u EXCEPT !.pc = "submit"]
    <3>1. d.ref = u.ref /\ d.pc = "submit"
      BY <1>1 DEF Unit
    <3>2. u.pc = "commit" /\ \E v \in {d, IdleUnit} : unit' = [unit EXCEPT ![p] = v]
      BY <2>4 DEF CommitAnswer, Reply, Return
    <3> HIDE DEF d
    <3> QED BY <3>1, <3>2
  <2>5. CASE SubmitAcknowledgement(p)
    <3> DEFINE d == [u EXCEPT !.pc = "release"]
    <3>1. d.ref = u.ref /\ d.pc = "release"
      BY <1>1 DEF Unit
    <3>2. u.pc = "submit" /\ \E v \in {d, IdleUnit} : unit' = [unit EXCEPT ![p] = v]
      BY <2>5 DEF SubmitAcknowledgement
    <3> HIDE DEF d
    <3> QED BY <3>1, <3>2
  <2>6. CASE ReleaseHeldOrder(p) \/ CallFails(p)
    BY <2>6 DEF ReleaseHeldOrder, CallFails, Return
  <2> QED BY <2>1, <2>2, <2>3, <2>4, <2>5, <2>6 DEF Step
<1> HIDE DEF u
<1> QED BY <1>1, <1>2, <1>3 DEF u

\* Nobody has asked or told anything at boot.
LEMMA WithinInit == IsFiniteSet(Pods) /\ Init => Within
<1> SUFFICES ASSUME IsFiniteSet(Pods), Init PROVE Within
  OBVIOUS
<1>1. ASSUME NEW r \in Refs PROVE WithinOf(r)
  <2>1. HoldsOf(r) = {} /\ answers[r] = <<>> /\ Asking(r) = {}
        /\ Answering(r) = {}
    BY IntakeAssumption DEF Init, HoldsOf, Asking, Answering, IdleUnit
  <2>2. Cardinality(Pods) \in Nat
    BY FS_CardinalityType
  <2> QED BY <2>1, <2>2, FS_EmptySet DEF WithinOf
<1> QED BY <1>1 DEF Within, Init, IdleUnit

\* A call asks or tells the one order of its unit at most once more, and
\* only in the place of the unit itself.
LEMMA WithinCall ==
  ASSUME IsFiniteSet(Pods), Known, Within, NEW p \in Pods, NEW u, u = unit[p],
         NEW r, r = u.ref, Step(p)
  PROVE  Within'
<1> USE DEF Stored, Process
<1>1. /\ Shape /\ TypeOK /\ u \in Unit
      /\ \A s \in Refs : Len(answers[s]) \in Nat
  BY DEF Known, Safe, Shape, TypeOK
<1>2. /\ \A q \in Pods \ {p} : unit'[q] = unit[q]
      /\ r \in Refs
      /\ \/ unit'[p] = IdleUnit
         \/ /\ unit'[p].ref = r
            /\ \/ u.pc = "save" /\ unit'[p].pc \in {"raise", "commit"}
               \/ /\ u.pc \in {"raise", "cancel"}
                  /\ unit'[p].pc \in {"cancel", "commit"}
               \/ u.pc = "commit" /\ unit'[p].pc = "submit"
               \/ u.pc = "submit" /\ unit'[p].pc = "release"
  BY <1>1, CallsGoOn
<1>3. \A s \in Refs : Exists(rows[s]) => Exists(rows'[s])
  <2>1. CASE SaveReceived(p) \/ CommitAnswer(p)
    <3>1. u.order \in Order
      BY <1>1, <2>1 DEF SaveReceived, CommitAnswer, Shape, UnitsCarry, Carries
    <3>2. \E e : SaveAndPublish(r, u.order, e)
      BY <2>1 DEF SaveReceived, CommitAnswer
    <3> QED BY <1>1, <1>2, <3>1, <3>2, UpsertRow
  <2>2. CASE ~(SaveReceived(p) \/ CommitAnswer(p))
    BY <2>2 DEF Step, RaiseHeldOrder, CancelHeldOrder, SubmitAcknowledgement,
       ReleaseHeldOrder, CallFails
  <2> QED BY <2>1, <2>2
<1>4. ~(unit'[p].pc \in {"idle", "save"}) => Exists(rows'[r])
  <2>1. CASE SaveReceived(p)
    <3>1. u.order \in Order
      BY <1>1, <2>1 DEF SaveReceived, Shape, UnitsCarry, Carries
    <3>2. SaveAndPublish(r, u.order, Received)
      BY <2>1 DEF SaveReceived
    <3> QED BY <1>1, <1>2, <3>1, <3>2, UpsertRow
  <2>2. CASE ~SaveReceived(p)
    <3>1. u.pc # "save" \/ unit'[p] = IdleUnit
      BY <1>1, <2>2 DEF Step, RaiseHeldOrder, CancelHeldOrder, CommitAnswer,
         SubmitAcknowledgement, ReleaseHeldOrder, CallFails, Return, TypeOK
    <3>2. u.pc \notin {"idle", "save"} => Exists(rows[r])
      BY DEF Within
    <3> QED BY <1>2, <1>3, <3>1, <3>2 DEF IdleUnit
  <2> QED BY <2>1, <2>2
<1>5. \A q \in Pods :
        unit'[q].pc \notin {"idle", "save"} => Exists(rows'[unit'[q].ref])
  <2> SUFFICES ASSUME NEW q \in Pods, unit'[q].pc \notin {"idle", "save"}
               PROVE  Exists(rows'[unit'[q].ref])
    OBVIOUS
  <2>1. CASE q = p
    BY <1>2, <1>4, <2>1 DEF IdleUnit
  <2>2. CASE q # p
    <3>1. unit[q].ref \in Refs
      BY <1>1, <1>2, <2>2 DEF Shape, UnitsCarry, Carries
    <3> QED BY <1>2, <1>3, <2>2, <3>1 DEF Within
  <2> QED BY <2>1, <2>2
<1>6. \A s \in Refs : /\ Asking(s)' \subseteq Asking(s)
                      /\ Answering(s)' \subseteq Answering(s)
  BY <1>2 DEF Asking, Answering, IdleUnit
<1>7. ASSUME \A s \in Refs : HoldsOf(s)' \subseteq HoldsOf(s),
             UNCHANGED answers
      PROVE  Within'
  <2>1. ASSUME NEW s \in Refs PROVE WithinOf(s)'
    BY <1>1, <1>3, <1>6, <1>7, WithinFrame DEF Within
  <2> QED BY <1>5, <2>1 DEF Within
<1>8. CASE SaveReceived(p) \/ CommitAnswer(p) \/ CallFails(p)
  BY <1>7, <1>8 DEF SaveReceived, CommitAnswer, CallFails, HoldsOf
<1>9. CASE CancelHeldOrder(p) \/ ReleaseHeldOrder(p)
  <2>1. \E status : holds' = [holds EXCEPT ![u.local].status = status]
    BY <1>9 DEF CancelHeldOrder, ReleaseHeldOrder
  <2>2. \A l \in LocalIds : holds'[l].ref = holds[l].ref
    BY <1>1, <2>1 DEF TypeOK, Hold
  <2> QED BY <1>7, <1>9, <2>2 DEF CancelHeldOrder, ReleaseHeldOrder, HoldsOf
<1>10. CASE RaiseHeldOrder(p)
  <2>1. PICK l \in LocalIds :
          holds' = [holds EXCEPT ![l] = [ref |-> r, status |-> "held"]]
    BY <1>10 DEF RaiseHeldOrder
  <2>2. UNCHANGED <<rows, answers>> /\ u.pc = "raise"
    BY <1>10 DEF RaiseHeldOrder
  <2>3. HoldsOf(r)' \subseteq HoldsOf(r) \cup {l}
    BY <1>1, <2>1 DEF HoldsOf, TypeOK
  <2>4. p \in Asking(r) /\ p \notin Asking(r)'
    BY <1>2, <2>2 DEF Asking, IdleUnit
  <2>5. ASSUME NEW s \in Refs \ {r} PROVE WithinOf(s)'
    <3>1. HoldsOf(s)' \subseteq HoldsOf(s)
      BY <1>1, <2>1 DEF HoldsOf, TypeOK
    <3> QED BY <1>1, <1>3, <1>6, <2>2, <3>1, WithinFrame DEF Within
  <2>6. WithinOf(r)'
    <3>1. WithinOf(r) /\ Exists(rows[r])
      BY <1>2, <2>2 DEF Within
    <3>2. /\ IsFiniteSet(HoldsOf(r) \cup {l})
          /\ Cardinality(HoldsOf(r)) \in Nat
          /\ Cardinality(HoldsOf(r) \cup {l}) \in Nat
          /\ Cardinality(HoldsOf(r) \cup {l}) <= Cardinality(HoldsOf(r)) + 1
      BY <3>1, OneMore DEF WithinOf
    <3>3. /\ IsFiniteSet(HoldsOf(r)') /\ Cardinality(HoldsOf(r)') \in Nat
          /\ Cardinality(HoldsOf(r)') <= Cardinality(HoldsOf(r) \cup {l})
      BY <2>3, <3>2, Smaller
    <3>4. /\ Cardinality(Asking(r)') \in Nat /\ Cardinality(Asking(r)) \in Nat
          /\ Cardinality(Asking(r)') + 1 <= Cardinality(Asking(r))
      BY <1>2, <1>6, <2>4, AtWork, Smaller
    <3>5. /\ Cardinality(Answering(r)') \in Nat
          /\ Cardinality(Answering(r)) \in Nat
          /\ Cardinality(Answering(r)') <= Cardinality(Answering(r))
      BY <1>2, <1>6, AtWork, Smaller
    <3>6. Cardinality(Pods) \in Nat
      BY FS_CardinalityType
    <3>7. /\ Cardinality(HoldsOf(r)) + Cardinality(Asking(r))
               <= Cardinality(Pods)
          /\ Len(answers[r]) + Cardinality(Answering(r)) <= Cardinality(Pods)
      BY <3>1 DEF WithinOf
    <3>8. Cardinality(HoldsOf(r)') + Cardinality(Asking(r)')
            <= Cardinality(Pods)
      BY <3>2, <3>3, <3>4, <3>6, <3>7
    <3>9. Len(answers[r]) + Cardinality(Answering(r)') <= Cardinality(Pods)
      BY <1>1, <1>2, <3>5, <3>6, <3>7
    <3> QED BY <2>2, <3>1, <3>3, <3>8, <3>9 DEF WithinOf
  <2> QED BY <1>5, <2>5, <2>6 DEF Within
<1>11. CASE SubmitAcknowledgement(p)
  <2>1. /\ UNCHANGED <<rows, holds>> /\ u.pc = "submit"
        /\ answers' = [answers EXCEPT ![r] = Append(@, u.order.state)]
    BY <1>11 DEF SubmitAcknowledgement
  <2>2. \A s \in Refs : HoldsOf(s)' = HoldsOf(s)
    BY <2>1 DEF HoldsOf
  <2>3. p \in Answering(r) /\ p \notin Answering(r)'
    BY <1>2, <2>1 DEF Answering, IdleUnit
  <2>4. ASSUME NEW s \in Refs \ {r} PROVE WithinOf(s)'
    <3>1. answers'[s] = answers[s]
      BY <1>1, <2>1 DEF TypeOK
    <3> QED BY <1>1, <1>3, <1>6, <2>2, <3>1, WithinFrame DEF Within
  <2>5. WithinOf(r)'
    <3>1. WithinOf(r) /\ Exists(rows[r])
      BY <1>2, <2>1 DEF Within
    <3>2. Len(answers'[r]) = Len(answers[r]) + 1 /\ Len(answers[r]) \in Nat
      BY <1>1, <1>2, <2>1 DEF TypeOK
    <3>3. /\ Cardinality(Answering(r)') \in Nat
          /\ Cardinality(Answering(r)) \in Nat
          /\ Cardinality(Answering(r)') + 1 <= Cardinality(Answering(r))
      BY <1>2, <1>6, <2>3, AtWork, Smaller
    <3>4. /\ Cardinality(Asking(r)') \in Nat /\ Cardinality(Asking(r)) \in Nat
          /\ Cardinality(Asking(r)') <= Cardinality(Asking(r))
      BY <1>2, <1>6, AtWork, Smaller
    <3>5. Cardinality(Pods) \in Nat /\ Cardinality(HoldsOf(r)) \in Nat
      BY <3>1, FS_CardinalityType DEF WithinOf
    <3>6. /\ Cardinality(HoldsOf(r)) + Cardinality(Asking(r))
               <= Cardinality(Pods)
          /\ Len(answers[r]) + Cardinality(Answering(r)) <= Cardinality(Pods)
      BY <3>1 DEF WithinOf
    <3>7. Cardinality(HoldsOf(r)) + Cardinality(Asking(r)')
            <= Cardinality(Pods)
      BY <3>4, <3>5, <3>6
    <3>8. Len(answers[r]) + 1 + Cardinality(Answering(r)')
            <= Cardinality(Pods)
      BY <3>2, <3>3, <3>5, <3>6
    <3>9. Len(answers'[r]) + Cardinality(Answering(r)') <= Cardinality(Pods)
      BY <3>2, <3>8
    <3> QED BY <1>2, <2>1, <2>2, <3>1, <3>7, <3>9 DEF WithinOf
  <2> QED BY <1>5, <2>4, <2>5 DEF Within
<1> QED BY <1>8, <1>9, <1>10, <1>11 DEF Step

\* Every step stays within the number of pods.
LEMMA WithinStep ==
  ASSUME IsFiniteSet(Pods), Known, Within, [Next]_vars
  PROVE  Within'
<1> USE DEF Stored, Process
<1>1. /\ Shape /\ TypeOK /\ \A s \in Refs : Len(answers[s]) \in Nat
      /\ \A p \in Pods : unit[p].pc # "idle" => unit[p].ref \in Refs
  BY DEF Known, Safe, Shape, TypeOK, UnitsCarry, Carries
<1>2. ASSUME \A s \in Refs : /\ Exists(rows[s]) => Exists(rows'[s])
                             /\ HoldsOf(s)' = HoldsOf(s),
             UNCHANGED answers,
             \A q \in Pods : unit'[q] = unit[q] \/ unit'[q] = IdleUnit
      PROVE  Within'
  <2>1. ASSUME NEW s \in Refs PROVE WithinOf(s)'
    <3>1. Asking(s)' \subseteq Asking(s) /\ Answering(s)' \subseteq Answering(s)
      BY <1>2 DEF Asking, Answering, IdleUnit
    <3> QED BY <1>1, <1>2, <3>1, WithinFrame DEF Within
  <2>2. \A q \in Pods :
          unit'[q].pc \notin {"idle", "save"} => Exists(rows'[unit'[q].ref])
    BY <1>1, <1>2 DEF Within, IdleUnit
  <2> QED BY <2>1, <2>2 DEF Within
<1>3. CASE Tick \/ UNCHANGED vars
  BY <1>2, <1>3 DEF Tick, vars, HoldsOf
<1>4. ASSUME NEW p \in Pods,
             \/ LoadFails(p) \/ Restart(p) \/ PollDemand(p) \/ ListUnanswered(p)
             \/ \E r \in Refs :
                  PassOver(p, r) \/ MissFails(p, r) \/ LoadListed(p, r)
      PROVE  Within'
  <2>1. /\ UNCHANGED <<rows, answers, holds>>
        /\ unit' = unit \/ unit' = [unit EXCEPT ![p] = IdleUnit]
    BY <1>4 DEF LoadFails, Restart, PollDemand, ListUnanswered, PassOver,
       MissFails, LoadListed
  <2>2. \A q \in Pods : unit'[q] = unit[q] \/ unit'[q] = IdleUnit
    BY <1>1, <2>1 DEF TypeOK
  <2> QED BY <1>2, <2>1, <2>2 DEF HoldsOf
<1>5. ASSUME NEW p \in Pods, NEW r \in Refs, TakeUp(p, r) PROVE Within'
  <2>1. UNCHANGED <<rows, holds, answers>> /\ ~Exists(rows[r])
    BY <1>5 DEF TakeUp, FindByRef
  <2>2. /\ unit'[p].pc = "save" /\ unit'[p].ref = r
        /\ \A q \in Pods \ {p} : unit'[q] = unit[q]
    BY <1>1, <1>5 DEF TakeUp, TypeOK
  <2>3. \A s \in Refs : HoldsOf(s)' = HoldsOf(s)
    BY <2>1 DEF HoldsOf
  <2>4. ASSUME NEW s \in Refs \ {r} PROVE WithinOf(s)'
    <3>1. Asking(s)' \subseteq Asking(s) /\ Answering(s)' \subseteq Answering(s)
      BY <2>2 DEF Asking, Answering
    <3> QED BY <1>1, <2>1, <2>3, <3>1, WithinFrame DEF Within
  <2>5. WithinOf(r)'
    <3>1. HoldsOf(r)' = {} /\ answers'[r] = <<>>
      BY <2>1, <2>3 DEF Within, WithinOf
    <3>2. Asking(r)' \subseteq Pods /\ Answering(r)' \subseteq Pods
      BY DEF Asking, Answering
    <3>3. /\ Cardinality(Asking(r)') \in Nat /\ Cardinality(Answering(r)') \in Nat
          /\ Cardinality(Asking(r)') <= Cardinality(Pods)
          /\ Cardinality(Answering(r)') <= Cardinality(Pods)
      BY <3>2, Smaller
    <3> QED BY <3>1, <3>3, FS_EmptySet DEF WithinOf
  <2>6. \A q \in Pods :
          unit'[q].pc \notin {"idle", "save"} => Exists(rows'[unit'[q].ref])
    BY <2>1, <2>2 DEF Within
  <2> QED BY <2>4, <2>5, <2>6 DEF Within
<1>6. ASSUME NEW p \in Pods, NEW r \in Refs, MissOne(p, r) PROVE Within'
  <2> DEFINE o == sweep[p].loaded[r]
  <2>1. o \in Order /\ o.local = NoLocal
    BY <1>6 DEF MissOne, Passed, Known, Safe, Shape, LoadedUnanswered
  <2>2. Reject(o) \in Order
    BY <2>1 DEF Reject, Order, State
  <2>3. SaveAndPublish(r, Reject(o), Missed) /\ UNCHANGED <<answers, unit>>
    BY <1>6 DEF MissOne, Missed
  <2>4. holds' = holds
    BY <1>1, <1>6, <2>1, OrderAssumption DEF MissOne, TypeOK
  <2> HIDE DEF o
  <2>5. \A s \in Refs : Exists(rows[s]) => Exists(rows'[s])
    BY <1>1, <2>2, <2>3, UpsertRow
  <2> QED BY <1>2, <2>3, <2>4, <2>5 DEF HoldsOf
<1> QED BY <1>3, <1>4, <1>5, <1>6, WithinCall DEF Next

\* What holds of any number of pods, always.
LEMMA AlwaysKnown == Spec => []Known
<1>1. Init => Punctual
  BY DEF Init, Punctual, IdleSweep, Recorded, Exists, NoOrder
<1>2. Shape /\ Punctual /\ [Next]_vars => Punctual'
  BY PunctualStep
<1>3. Safe => Shape
  BY DEF Safe
<1> QED BY <1>1, <1>2, <1>3, AlwaysSafe, PTL DEF Spec, Known

\* Finitely many pods stay within their number, always.
LEMMA AlwaysWithin == ASSUME IsFiniteSet(Pods) PROVE Spec => []Within
<1>1. Init => Within
  BY WithinInit
<1>2. Known /\ Within /\ [Next]_vars => Within'
  BY WithinStep
<1> QED BY <1>1, <1>2, AlwaysKnown, PTL DEF Spec

\* FindByRef is no lock, but it bounds what its absence costs: a demand is
\* raised with order-management at most once per replica, however often it
\* is redelivered and whatever fails or restarts.
THEOREM RaisedOncePerReplica ==
  ASSUME IsFiniteSet(Pods)
  PROVE  Spec => [](\A r \in Refs :
                      /\ IsFiniteSet({l \in LocalIds : holds[l].ref = r})
                      /\ Cardinality({l \in LocalIds : holds[l].ref = r})
                           <= Cardinality(Pods))
<1> DEFINE Bounded(r) == /\ IsFiniteSet({l \in LocalIds : holds[l].ref = r})
                         /\ Cardinality({l \in LocalIds : holds[l].ref = r})
                              <= Cardinality(Pods)
<1>1. ASSUME Within, NEW r \in Refs PROVE Bounded(r)
  <2>1. WithinOf(r)
    BY <1>1 DEF Within
  <2>2. Cardinality(Pods) \in Nat /\ Cardinality(Asking(r)) \in Nat
        /\ Cardinality(HoldsOf(r)) \in Nat
    BY <2>1, AtWork, FS_CardinalityType DEF WithinOf
  <2> QED BY <2>1, <2>2 DEF WithinOf, HoldsOf
<1>2. Within => \A r \in Refs : Bounded(r)
  BY <1>1
<1> QED BY <1>2, AlwaysWithin, PTL

\* So the network hears of an order at most once from each replica: one
\* replica tells it once.
THEOREM ToldOncePerReplica ==
  ASSUME IsFiniteSet(Pods)
  PROVE  Spec => [](\A r \in Refs : Len(answers[r]) <= Cardinality(Pods))
<1>1. ASSUME Known, Within, NEW r \in Refs
      PROVE  Len(answers[r]) <= Cardinality(Pods)
  <2>1. WithinOf(r) /\ Len(answers[r]) \in Nat
    BY <1>1 DEF Within, Known, Safe, Shape, TypeOK
  <2>2. Cardinality(Pods) \in Nat /\ Cardinality(Answering(r)) \in Nat
    BY AtWork, FS_CardinalityType
  <2> QED BY <2>1, <2>2 DEF WithinOf
<1>2. Known /\ Within => \A r \in Refs : Len(answers[r]) <= Cardinality(Pods)
  BY <1>1
<1> QED BY <1>2, AlwaysKnown, AlwaysWithin, PTL

-----------------------------------------------------------------------------
(***************************************************************************)
(* One replica, however late its sweep or its units run.                   *)
(***************************************************************************)
Raised(r) == \E l \in LocalIds : holds[l].ref = r

\* A unit has refused the order; the sweep giving it up does not count.
UnitRefused(r) ==
  \/ Recorded(r, Rejected("INFEASIBLE_DEADLINE"))
  \/ Recorded(r, Rejected("UNTRANSLATABLE_SKU"))

\* What one replica does once per order, whenever its sweep catches up with
\* it: FindByRef keeps redelivered demand away from a second unit.
OnceOf(r) ==
  /\ ~Exists(rows[r]) => answers[r] = <<>> /\ ~Raised(r) /\ ~UnitRefused(r)
  /\ \A l, m \in LocalIds : holds[l].ref = r /\ holds[m].ref = r => l = m
  /\ \A l \in LocalIds :
       UnitRefused(r) /\ holds[l].ref = r => holds[l].status = "cancelled"

\* The unit in flight is the only one its order has had.
OnceFor(u) ==
  /\ u.pc = "save" => ~Exists(rows[u.ref])
  /\ u.pc \notin {"idle", "save"} => Exists(rows[u.ref])
  /\ u.pc = "raise" \/ (u.pc = "commit" /\ u.local = NoLocal) => ~Raised(u.ref)
  /\ u.pc \in {"raise", "cancel", "commit", "submit"} => answers[u.ref] = <<>>
  /\ \/ u.pc \in {"raise", "cancel", "commit"}
     \/ u.pc \in {"submit", "release"} /\ u.order.state = "ACKNOWLEDGED"
     => ~UnitRefused(u.ref)

Once ==
  /\ \A r \in Refs : OnceOf(r)
  /\ \A p \in Pods : OnceFor(unit[p])

\* An order of which nothing changes that a second unit could repeat.
LEMMA OnceFrame ==
  ASSUME NEW r \in Refs, OnceOf(r), Exists(rows'[r]) = Exists(rows[r]),
         UnitRefused(r)' = UnitRefused(r), answers'[r] = answers[r],
         \A l \in LocalIds : holds'[l].ref = r => holds'[l] = holds[l]
  PROVE  OnceOf(r)'
  BY DEF OnceOf, Raised

\* A step that repeats nothing, and at most ends a unit.
LEMMA OnceQuiet ==
  ASSUME Once, UNCHANGED <<holds, answers>>,
         \A r \in Refs : /\ Exists(rows'[r]) = Exists(rows[r])
                         /\ UnitRefused(r)' = UnitRefused(r),
         \A p \in Pods : unit'[p] = unit[p] \/ unit'[p] = IdleUnit,
         \A p \in Pods : unit[p].pc # "idle" => unit[p].ref \in Refs
  PROVE  Once'
<1>1. ASSUME NEW r \in Refs PROVE OnceOf(r)'
  BY <1>1, OnceFrame DEF Once
<1>2. ASSUME NEW p \in Pods PROVE OnceFor(unit[p])'
  BY DEF Once, OnceFor, IdleUnit, Raised
<1> QED BY <1>1, <1>2 DEF Once

\* Nothing has been done yet at boot...
LEMMA OnceInit == Init => Once
<1> SUFFICES ASSUME Init PROVE Once
  OBVIOUS
<1>1. \A r \in Refs : ~UnitRefused(r) /\ ~Raised(r) /\ answers[r] = <<>>
  BY IntakeAssumption DEF Init, UnitRefused, Recorded, Raised
<1>2. \A r \in Refs : OnceOf(r)
  BY <1>1 DEF OnceOf, Raised
<1>3. \A p \in Pods : OnceFor(unit[p])
  BY DEF Init, OnceFor, IdleUnit
<1> QED BY <1>2, <1>3 DEF Once

\* The save of the unit that took the demand up: the row was not there.
LEMMA SaveOnce ==
  ASSUME NEW p \in Pods, Pods = {p}, NEW u, u = unit[p], NEW r, r = u.ref,
         Known, Once, SaveReceived(p)
  PROVE  Once'
<1> USE DEF Stored, Process
<1>1. /\ u \in Unit /\ u.pc = "save" /\ r \in Refs /\ u.local = NoLocal
      /\ u.order \in Order
  BY DEF SaveReceived, Known, Safe, Shape, TypeOK, UnitsCarry, Carries
<1>2. /\ ~Exists(rows[r]) /\ answers[r] = <<>> /\ ~Raised(r)
      /\ ~UnitRefused(r)
  BY <1>1 DEF Once, OnceFor, OnceOf
<1>3. SaveAndPublish(r, u.order, Received) /\ UNCHANGED <<holds, answers>>
  BY DEF SaveReceived
<1>4. /\ \A s \in Refs \ {r} : rows'[s] = rows[s] /\ events'[s] = events[s]
      /\ Exists(rows'[r])
  BY <1>1, <1>3, UpsertRow DEF Known, Safe
<1>5. ~UnitRefused(r)'
  <2>1. Received \in Event /\ \A reason : Received # Rejected(reason)
    BY DEF Event, Received, Rejected
  <2> QED BY <1>1, <1>2, <1>3, <2>1, OutboxAppended
          DEF UnitRefused, Known, Safe, Shape
<1>6. OnceOf(r)'
  BY <1>1, <1>2, <1>3, <1>4, <1>5 DEF Once, OnceOf
<1>7. ASSUME NEW s \in Refs \ {r} PROVE OnceOf(s)'
  <2>1. UnitRefused(s)' = UnitRefused(s)
    BY <1>4 DEF UnitRefused, Recorded
  <2> QED BY <1>3, <1>4, <2>1, OnceFrame DEF Once
<1>8. OnceFor(unit[p])'
  <2> DEFINE c == [u EXCEPT !.pc = "raise"]
             d == [u EXCEPT !.pc = "commit", !.order = Reject(u.order)]
  <2>1. unit'[p] \in {c, d, IdleUnit}
    BY DEF SaveReceived, Reply, Return, Known, Safe, Shape, TypeOK
  <2>2. c.pc = "raise" /\ c.ref = r /\ d.pc = "commit" /\ d.ref = r
    BY <1>1 DEF Unit
  <2>3. ~Raised(r)'
    BY <1>2, <1>3 DEF Raised
  <2> HIDE DEF c, d
  <2> QED BY <1>2, <1>3, <1>4, <1>5, <2>1, <2>2, <2>3 DEF OnceFor, IdleUnit
<1> QED BY <1>6, <1>7, <1>8 DEF Once

\* The raise: the first and only order order-management has for this one.
LEMMA RaiseOnce ==
  ASSUME NEW p \in Pods, Pods = {p}, NEW u, u = unit[p], NEW r, r = u.ref,
         Known, Once, RaiseHeldOrder(p)
  PROVE  Once'
<1> USE DEF Stored, Process
<1>1. u \in Unit /\ u.pc = "raise" /\ r \in Refs
  BY DEF RaiseHeldOrder, Known, Safe, Shape, TypeOK, UnitsCarry, Carries
<1>2. Exists(rows[r]) /\ ~Raised(r) /\ answers[r] = <<>> /\ ~UnitRefused(r)
  BY <1>1 DEF Once, OnceFor
<1>3. PICK l \in LocalIds :
        /\ holds' = [holds EXCEPT ![l] = [ref |-> r, status |-> "held"]]
        /\ \/ Reply(p, [u EXCEPT !.pc = "cancel", !.local = l])
           \/ Reply(p, [u EXCEPT !.pc = "commit", !.local = l,
                          !.order = LinkLocalOrder(Acknowledge(@), l)])
  BY DEF RaiseHeldOrder
<1>4. UNCHANGED <<rows, events, answers>>
  BY DEF RaiseHeldOrder
<1>5. /\ \A m \in LocalIds \ {l} : holds'[m] = holds[m]
      /\ holds'[l].ref = r
  BY <1>3 DEF Known, Safe, Shape, TypeOK
<1>6. \A s \in Refs : UnitRefused(s)' = UnitRefused(s)
  BY <1>4 DEF UnitRefused, Recorded
<1>7. OnceOf(r)'
  <2>1. \A m \in LocalIds : holds'[m].ref = r => m = l
    BY <1>2, <1>5 DEF Raised
  <2> QED BY <1>1, <1>2, <1>4, <1>6, <2>1 DEF Once, OnceOf
<1>8. ASSUME NEW s \in Refs \ {r} PROVE OnceOf(s)'
  BY <1>4, <1>5, <1>6, OnceFrame DEF Once
<1>9. OnceFor(unit[p])'
  <2> DEFINE c == [u EXCEPT !.pc = "cancel", !.local = l]
             d == [u EXCEPT !.pc = "commit", !.local = l,
                     !.order = LinkLocalOrder(Acknowledge(@), l)]
  <2>1. unit'[p] \in {c, d, IdleUnit}
    BY <1>3 DEF Reply, Return, Known, Safe, Shape, TypeOK
  <2>2. /\ c.pc = "cancel" /\ c.ref = r
        /\ d.pc = "commit" /\ d.ref = r /\ d.local # NoLocal
    BY <1>1, OrderAssumption DEF Unit
  <2> HIDE DEF c, d
  <2> QED BY <1>1, <1>2, <1>4, <1>6, <2>1, <2>2 DEF OnceFor, IdleUnit
<1> QED BY <1>7, <1>8, <1>9 DEF Once

\* The cancel and the release touch the one hold of the unit's own order,
\* which was not refused.
LEMMA FreeOnce ==
  ASSUME NEW p \in Pods, Pods = {p}, NEW u, u = unit[p], NEW r, r = u.ref,
         Known, Once, CancelHeldOrder(p) \/ ReleaseHeldOrder(p)
  PROVE  Once'
<1> USE DEF Stored, Process
<1>1. /\ u \in Unit /\ u.pc \in {"cancel", "release"} /\ r \in Refs
      /\ u.local \in LocalIds /\ u.local # NoLocal
      /\ u.pc = "release" => u.order.state = "ACKNOWLEDGED"
  BY OrderAssumption DEF CancelHeldOrder, ReleaseHeldOrder, Known, Safe, Shape,
     TypeOK, UnitsCarry, Carries
<1>2. /\ holds[u.local].ref = r /\ Exists(rows[r]) /\ ~UnitRefused(r)
      /\ u.pc = "cancel" => answers[r] = <<>>
  BY <1>1 DEF Known, Safe, HoldsOwned, OwnsHold, Owned, Once, OnceFor
<1>3. /\ UNCHANGED <<rows, events, answers>>
      /\ \E status : holds' = [holds EXCEPT ![u.local].status = status]
  BY DEF CancelHeldOrder, ReleaseHeldOrder
<1>4. /\ \A m \in LocalIds \ {u.local} : holds'[m] = holds[m]
      /\ \A m \in LocalIds : holds'[m].ref = holds[m].ref
  <2>1. holds \in [LocalIds -> Hold]
    BY DEF Known, Safe, Shape, TypeOK
  <2> QED BY <1>1, <1>3, <2>1 DEF Hold
<1>5. \A s \in Refs : UnitRefused(s)' = UnitRefused(s)
  BY <1>3 DEF UnitRefused, Recorded
<1>6. OnceOf(r)'
  BY <1>1, <1>2, <1>3, <1>4, <1>5 DEF Once, OnceOf
<1>7. ASSUME NEW s \in Refs \ {r} PROVE OnceOf(s)'
  <2>1. \A m \in LocalIds : holds'[m].ref = s => holds'[m] = holds[m]
    BY <1>1, <1>2, <1>4
  <2> QED BY <1>3, <1>5, <2>1, OnceFrame DEF Once
<1>8. OnceFor(unit[p])'
  <2> DEFINE d == [u EXCEPT !.pc = "commit", !.order = Reject(u.order)]
  <2>1. unit'[p] = IdleUnit \/ (u.pc = "cancel" /\ unit'[p] = d)
    BY <1>1 DEF CancelHeldOrder, ReleaseHeldOrder, Reply, Return, Known, Safe,
       Shape, TypeOK
  <2>2. d.pc = "commit" /\ d.ref = r /\ d.local = u.local
    BY <1>1 DEF Unit
  <2> HIDE DEF d
  <2> QED BY <1>1, <1>2, <1>3, <1>5, <2>1, <2>2 DEF OnceFor, IdleUnit
<1> QED BY <1>6, <1>7, <1>8 DEF Once

\* The commit records a refusal only over the cancelled hold, or none.
LEMMA CommitOnce ==
  ASSUME NEW p \in Pods, Pods = {p}, NEW u, u = unit[p], NEW r, r = u.ref,
         Known, Once, CommitAnswer(p)
  PROVE  Once'
<1> USE DEF Stored, Process
<1>1. /\ u \in Unit /\ u.pc = "commit" /\ r \in Refs /\ u.order \in Order
      /\ \/ /\ u.order.state = "ACKNOWLEDGED"
            /\ u.local \in LocalIds /\ u.local # NoLocal
         \/ u.order.state = "REJECTED" /\ u.local \in LocalIds \cup {NoLocal}
  BY OrderAssumption DEF CommitAnswer, Known, Safe, Shape, TypeOK, UnitsCarry,
     Carries, Unit
<1>2. /\ Exists(rows[r]) /\ answers[r] = <<>> /\ ~UnitRefused(r)
      /\ u.local = NoLocal => ~Raised(r)
  BY <1>1 DEF Once, OnceFor
<1>3. /\ SaveAndPublish(r, u.order, AnswerEvent(u))
      /\ UNCHANGED <<holds, answers>>
  BY DEF CommitAnswer
<1>4. /\ AnswerEvent(u) \in Event
      /\ u.order.state = "ACKNOWLEDGED" =>
           \A reason : AnswerEvent(u) # Rejected(reason)
  BY <1>1 DEF AnswerEvent, Event, Reasons, Acknowledged, Rejected
<1>5. /\ \A s \in Refs \ {r} : rows'[s] = rows[s] /\ events'[s] = events[s]
      /\ Exists(rows'[r])
  BY <1>1, <1>3, UpsertRow DEF Known, Safe
<1>6. u.order.state = "ACKNOWLEDGED" => ~UnitRefused(r)'
  BY <1>1, <1>2, <1>3, <1>4, OutboxAppended
  DEF UnitRefused, Known, Safe, Shape
<1>7. OnceOf(r)'
  <2>1. OnceOf(r)
    BY <1>1 DEF Once
  <2>2. ASSUME NEW l \in LocalIds, holds[l].ref = r,
               u.order.state = "REJECTED"
        PROVE  holds[l].status = "cancelled"
    <3>1. u.local \in LocalIds /\ u.local # NoLocal
      BY <1>1, <1>2, <2>2 DEF Raised
    <3>2. holds[u.local] = [ref |-> r, status |-> "cancelled"]
      BY <1>1, <2>2, <3>1 DEF Known, Safe, HoldsOwned, OwnsHold, Owned
    <3> QED BY <2>1, <2>2, <3>1, <3>2 DEF OnceOf
  <2> QED BY <1>1, <1>3, <1>5, <1>6, <2>1, <2>2 DEF OnceOf
<1>8. ASSUME NEW s \in Refs \ {r} PROVE OnceOf(s)'
  <2>1. UnitRefused(s)' = UnitRefused(s)
    BY <1>5 DEF UnitRefused, Recorded
  <2> QED BY <1>3, <1>5, <2>1, OnceFrame DEF Once
<1>9. OnceFor(unit[p])'
  <2> DEFINE v == [u EXCEPT !.pc = "submit"]
  <2>1. unit'[p] = IdleUnit \/ unit'[p] = v
    BY DEF CommitAnswer, Reply, Return, Known, Safe, Shape, TypeOK
  <2>2. v.pc = "submit" /\ v.ref = r /\ v.order = u.order
    BY <1>1 DEF Unit
  <2> HIDE DEF v
  <2> QED BY <1>2, <1>3, <1>5, <1>6, <2>1, <2>2 DEF OnceFor, IdleUnit
<1> QED BY <1>7, <1>8, <1>9 DEF Once

\* The network hears of an order whose answers are none so far.
LEMMA SubmitOnce ==
  ASSUME NEW p \in Pods, Pods = {p}, NEW u, u = unit[p], NEW r, r = u.ref,
         Known, Once, SubmitAcknowledgement(p)
  PROVE  Once'
<1> USE DEF Stored, Process
<1>1. u \in Unit /\ u.pc = "submit" /\ r \in Refs
  BY DEF SubmitAcknowledgement, Known, Safe, Shape, TypeOK, UnitsCarry, Carries
<1>2. /\ Exists(rows[r]) /\ answers[r] = <<>>
      /\ u.order.state = "ACKNOWLEDGED" => ~UnitRefused(r)
  BY <1>1 DEF Once, OnceFor
<1>3. UNCHANGED <<rows, events, holds>>
  BY DEF SubmitAcknowledgement
<1>4. /\ answers'[r] = <<u.order.state>>
      /\ \A s \in Refs \ {r} : answers'[s] = answers[s]
  BY <1>1, <1>2 DEF SubmitAcknowledgement, Known, Safe, Shape, TypeOK
<1>5. \A s \in Refs : UnitRefused(s)' = UnitRefused(s)
  BY <1>3 DEF UnitRefused, Recorded
<1>6. OnceOf(r)'
  BY <1>1, <1>2, <1>3, <1>4, <1>5 DEF Once, OnceOf
<1>7. ASSUME NEW s \in Refs \ {r} PROVE OnceOf(s)'
  BY <1>3, <1>4, <1>5, OnceFrame DEF Once
<1>8. OnceFor(unit[p])'
  <2> DEFINE v == [u EXCEPT !.pc = "release"]
  <2>1. \/ unit'[p] = IdleUnit
        \/ u.order.state = "ACKNOWLEDGED" /\ unit'[p] = v
    BY DEF SubmitAcknowledgement, Known, Safe, Shape, TypeOK
  <2>2. v.pc = "release" /\ v.ref = r /\ v.order = u.order
    BY <1>1 DEF Unit
  <2> HIDE DEF v
  <2> QED BY <1>1, <1>2, <1>3, <1>5, <2>1, <2>2 DEF OnceFor, IdleUnit
<1> QED BY <1>6, <1>7, <1>8 DEF Once

\* The sweep misses an order that has its row and no hold to free.
LEMMA MissOnce ==
  ASSUME NEW p \in Pods, NEW r \in Refs, Known, Once, MissOne(p, r)
  PROVE  Once'
<1> DEFINE o == sweep[p].loaded[r]
<1>1. /\ Exists(o) /\ o \in Order /\ o.local = NoLocal /\ Exists(rows[r])
  BY DEF MissOne, Passed, Known, Safe, Shape, LoadedUnanswered, Punctual,
     WindowClosed
<1>2. Reject(o) \in Order /\ Missed \in Event
  BY <1>1 DEF Reject, Order, State, Missed, Event, Reasons
<1>3. SaveAndPublish(r, Reject(o), Missed) /\ UNCHANGED <<answers, unit>>
  BY DEF MissOne, Missed
<1>4. holds' = holds
  BY <1>1, OrderAssumption DEF MissOne, Known, Safe, Shape, TypeOK
<1> HIDE DEF o
<1>5. \A s \in Refs : Exists(rows'[s]) = Exists(rows[s])
  <2>1. /\ \A s \in Refs \ {r} : rows'[s] = rows[s]
        /\ Exists(rows'[r])
    BY <1>2, <1>3, UpsertRow DEF Known, Safe
  <2> QED BY <1>1, <2>1 DEF Exists
<1>6. \A s \in Refs : UnitRefused(s)' = UnitRefused(s)
  <2>1. /\ Rejected("INFEASIBLE_DEADLINE") # Missed
        /\ Rejected("UNTRANSLATABLE_SKU") # Missed
    BY DEF Rejected, Missed
  <2> QED BY <1>2, <1>3, <2>1, OutboxAppended
          DEF UnitRefused, Known, Safe, Shape
<1>7. \A q \in Pods : unit[q].pc # "idle" => unit[q].ref \in Refs
  BY DEF Known, Safe, Shape, UnitsCarry, Carries
<1> QED BY <1>3, <1>4, <1>5, <1>6, <1>7, OnceQuiet

\* ...and no step of the one pod does a second time what it did.
LEMMA OnceStep ==
  ASSUME NEW the, Pods = {the}, Known, Once, [Next]_vars
  PROVE  Once'
<1> USE DEF Stored, Process
<1>0. /\ unit \in [Pods -> Unit]
      /\ \A p \in Pods : unit[p].pc # "idle" => unit[p].ref \in Refs
  BY DEF Known, Safe, Shape, TypeOK, UnitsCarry, Carries
<1>1. ASSUME UNCHANGED <<rows, events, answers, holds>>,
             \A p \in Pods : unit'[p] = unit[p] \/ unit'[p] = IdleUnit
      PROVE  Once'
  <2>1. \A r \in Refs : UnitRefused(r)' = UnitRefused(r)
    BY <1>1 DEF UnitRefused, Recorded
  <2> QED BY <1>0, <1>1, <2>1, OnceQuiet
<1>2. CASE Tick \/ UNCHANGED vars
  BY <1>1, <1>2 DEF Tick, vars
<1>3. ASSUME NEW p \in Pods, NEW r \in Refs, TakeUp(p, r) PROVE Once'
  <2>1. UNCHANGED <<rows, events, answers, holds>> /\ ~Exists(rows[r])
    BY <1>3 DEF TakeUp, FindByRef
  <2>2. \A s \in Refs : UnitRefused(s)' = UnitRefused(s)
    BY <2>1 DEF UnitRefused, Recorded
  <2>3. \A s \in Refs : OnceOf(s)'
    BY <2>1, <2>2, OnceFrame DEF Once
  <2>4. unit'[p].pc = "save" /\ unit'[p].ref = r
    BY <1>0, <1>3 DEF TakeUp
  <2>5. \A q \in Pods : OnceFor(unit[q])'
    BY <2>1, <2>4 DEF OnceFor
  <2> QED BY <2>3, <2>5 DEF Once
<1>4. ASSUME NEW p \in Pods,
             \/ LoadFails(p) \/ CallFails(p) \/ Restart(p)
             \/ PollDemand(p) \/ ListUnanswered(p)
             \/ \E r \in Refs :
                  PassOver(p, r) \/ MissFails(p, r) \/ LoadListed(p, r)
      PROVE  Once'
  <2>1. /\ UNCHANGED <<rows, events, answers, holds>>
        /\ unit' = unit \/ unit' = [unit EXCEPT ![p] = IdleUnit]
    BY <1>4 DEF LoadFails, CallFails, Restart, Return, PollDemand,
       ListUnanswered, PassOver, MissFails, LoadListed
  <2> QED BY <1>0, <1>1, <2>1
<1>5. ASSUME NEW p \in Pods, Step(p) PROVE Once'
  <2>1. Pods = {p}
    OBVIOUS
  <2> QED BY <1>4, <1>5, <2>1, SaveOnce, RaiseOnce, FreeOnce, CommitOnce,
             SubmitOnce DEF Step
<1> QED BY <1>2, <1>3, <1>4, <1>5, MissOnce DEF Next

\* One pod, however late its sweep or its units: all that holds, always.
LEMMA AlwaysOnce ==
  ASSUME NEW the, Pods = {the}
  PROVE  Spec => [](Known /\ Once)
<1>1. Known /\ Once /\ [Next]_vars => Once'
  BY OnceStep
<1> QED BY <1>1, AlwaysKnown, OnceInit, PTL DEF Spec

\* Order-management is asked once per order: FindByRef keeps redelivered
\* demand away from a second RaiseHeldOrder, even when the sweep has given
\* the order up in the meantime.
THEOREM OneReplicaRaisesOnce ==
  ASSUME NEW the, Pods = {the}
  PROVE  Spec => []OneHoldPerOrder
<1>1. Known /\ Once => OneHoldPerOrder
  <2> SUFFICES ASSUME Known, Once, NEW l \in LocalIds, NEW m \in LocalIds,
                      holds[l].ref = holds[m].ref, holds[l].ref # NoRef
               PROVE  l = m
    BY DEF OneHoldPerOrder
  <2>1. holds[l].ref \in Refs
    BY DEF Known, Safe, Shape, TypeOK, Hold
  <2> QED BY <2>1 DEF Once, OnceOf
<1> QED BY <1>1, AlwaysOnce, PTL

\* Refused demand keeps no stock: reject cancelled its only hold first, and
\* no later unit or sweep takes it up again.
THEOREM OneReplicaFreesRefused ==
  ASSUME NEW the, Pods = {the}
  PROVE  Spec => []RefusedHoldsNoStock
<1>1. Known /\ Once => RefusedHoldsNoStock
  BY DEF Once, OnceOf, UnitRefused, RefusedHoldsNoStock
<1> QED BY <1>1, AlwaysOnce, PTL

-----------------------------------------------------------------------------
(***************************************************************************)
(* One replica whose units end inside their windows.                       *)
(***************************************************************************)
\* What is true of each order, and of the sweep's view of it, besides.
OrderFacts(r) ==
  /\ answers[r] # <<>> =>
       /\ rows[r].state \in {"ACKNOWLEDGED", "REJECTED"}
       /\ answers[r] = <<rows[r].state>>
  /\ \A reason \in Reasons :
       Recorded(r, Rejected(reason)) => rows[r].state = "REJECTED"
  /\ \A p \in Pods : Exists(sweep[p].loaded[r]) => Unanswered(rows[r])

\* What the unit in flight knows of the order it carries.
InStep(u) ==
  /\ u.pc \in {"raise", "cancel", "commit"} => Unanswered(rows[u.ref])
  /\ u.pc = "submit" => rows[u.ref].state = u.order.state
  /\ u.pc = "release" =>
       /\ rows[u.ref].state = "ACKNOWLEDGED"
       /\ answers[u.ref] = <<"ACKNOWLEDGED">>
  /\ u.pc \notin {"idle", "save"} =>
       rows[u.ref].acknowledgeBy = u.order.acknowledgeBy
  /\ u.pc # "idle" => clock <= u.order.acknowledgeBy

Single ==
  /\ \A r \in Refs : OrderFacts(r)
  /\ \A p \in Pods : InStep(unit[p])

\* An order nobody touches keeps its facts.
LEMMA OrderFrame ==
  ASSUME NEW r \in Refs, OrderFacts(r),
         rows'[r] = rows[r], events'[r] = events[r], answers'[r] = answers[r],
         \A p \in Pods :
           Exists(sweep'[p].loaded[r]) => Exists(sweep[p].loaded[r])
  PROVE  OrderFacts(r)'
<1>1. \A e : Recorded(r, e)' = Recorded(r, e)
  BY DEF Recorded
<1> QED BY <1>1 DEF OrderFacts

\* Orders whose row and history nobody touches, when only the sweep forgets.
LEMMA QuietOrders ==
  ASSUME Single, UNCHANGED <<rows, events, answers>>,
         \A p \in Pods, r \in Refs :
           Exists(sweep'[p].loaded[r]) => Exists(sweep[p].loaded[r])
  PROVE  \A r \in Refs : OrderFacts(r)'
  BY OrderFrame DEF Single

\* An idle unit knows nothing.
LEMMA IdleInStep == ASSUME NEW p, unit'[p] = IdleUnit PROVE InStep(unit[p])'
  BY DEF InStep, IdleUnit

\* Everything holds of one freshly booted pod.
LEMMA SingleInit == Init => Single
<1> SUFFICES ASSUME Init PROVE Single
  OBVIOUS
<1>1. \A r \in Refs : \A x : ~Recorded(r, x)
  BY DEF Init, Recorded
<1>2. ASSUME NEW r \in Refs PROVE OrderFacts(r)
  BY <1>1 DEF Init, OrderFacts, IdleSweep, Exists, NoOrder
<1>3. \A p \in Pods : InStep(unit[p])
  BY DEF Init, InStep, IdleUnit
<1> QED BY <1>2, <1>3 DEF Single

\* A unit whose order, row and answers nobody touches knows what it knew.
LEMMA UnitFrame ==
  ASSUME Single, NEW p \in Pods, unit'[p] = unit[p], unit[p].ref \in Refs,
         clock' = clock, rows'[unit[p].ref] = rows[unit[p].ref],
         answers'[unit[p].ref] = answers[unit[p].ref]
  PROVE  InStep(unit[p])'
<1>1. InStep(unit[p])
  BY DEF Single
<1> QED BY <1>1 DEF InStep

\* The sweep never has the order of the unit in flight: it holds orders whose
\* window has closed, and the unit is still inside its own.
LEMMA OutOfReach ==
  ASSUME Known, Once, Single, NEW p \in Pods, InFlight(p),
         NEW q \in Pods, Exists(sweep[q].loaded[unit[p].ref])
  PROVE  FALSE
<1> DEFINE u == unit[p]
<1>1. u.ref \in Refs /\ u.order \in Order /\ clock \in Nat
  BY DEF InFlight, Known, Safe, Shape, UnitsCarry, Carries, TypeOK
<1>2. Exists(rows[u.ref]) /\ clock > rows[u.ref].acknowledgeBy
  BY <1>1 DEF Known, Punctual, WindowClosed
<1>3. u.pc \notin {"idle", "save"}
  BY <1>2 DEF InFlight, Once, OnceFor
<1>4. rows[u.ref].acknowledgeBy = u.order.acknowledgeBy
      /\ clock <= u.order.acknowledgeBy
  BY <1>3 DEF Single, InStep
<1>5. u.order.acknowledgeBy \in Nat
  BY <1>1 DEF Order
<1> HIDE DEF u
<1> QED BY <1>1, <1>2, <1>4, <1>5

\* The first save: the row appears with its Received event.
LEMMA SaveReceivedStep ==
  ASSUME NEW p \in Pods, Pods = {p}, NEW u, u = unit[p], NEW r, r = u.ref,
         Known, Once, Single, SaveReceived(p)
  PROVE  Single'
<1> USE DEF Stored, Process
<1>1. /\ u \in Unit /\ u.pc = "save" /\ r \in Refs /\ u.local = NoLocal
      /\ u.order \in Order /\ u.order.state = "NEW" /\ InFlight(p)
  BY DEF SaveReceived, InFlight, Known, Safe, Shape, TypeOK, UnitsCarry, Carries
<1>2. /\ ~Exists(rows[r]) /\ answers[r] = <<>>
      /\ clock <= u.order.acknowledgeBy
  BY <1>1 DEF Single, InStep, Once, OnceOf, OnceFor
<1>3. SaveAndPublish(r, u.order, Received)
      /\ UNCHANGED <<clock, answers, sweep>>
  BY DEF SaveReceived
<1>4. /\ \A s \in Refs \ {r} : rows'[s] = rows[s] /\ events'[s] = events[s]
      /\ Exists(rows'[r]) /\ rows'[r].state = "NEW"
      /\ rows'[r].acknowledgeBy = u.order.acknowledgeBy
  <2> QED BY <1>1, <1>2, <1>3, UpsertRow DEF Known, Safe
<1>5. \A reason \in Reasons : ~Recorded(r, Rejected(reason))'
  <2>1. events[r] = <<>>
    <3>1. IF events[r] = <<>> THEN ~Exists(rows[r])
          ELSE Explains(events[r][Len(events[r])], rows[r])
      BY <1>1 DEF Known, Safe, OnRecord, StoreMatchesOutbox
    <3> QED BY <1>2, <3>1 DEF Explains, Exists
  <2>2. \A x : ~Recorded(r, x)
    BY <2>1 DEF Recorded
  <2>3. Received \in Event /\ \A reason : Received # Rejected(reason)
    BY DEF Event, Received, Rejected
  <2> QED BY <1>1, <1>3, <2>2, <2>3, OutboxAppended DEF Known, Safe, Shape
<1>6. OrderFacts(r)'
  <2>1. \A q \in Pods : ~Exists(sweep'[q].loaded[r])
    BY <1>1, <1>3, OutOfReach
  <2> QED BY <1>2, <1>3, <1>4, <1>5, <2>1 DEF OrderFacts
<1>7. ASSUME NEW s \in Refs \ {r} PROVE OrderFacts(s)'
  BY <1>3, <1>4, OrderFrame DEF Single
<1>8. InStep(unit[p])'
  <2> DEFINE c == [u EXCEPT !.pc = "raise"]
             d == [u EXCEPT !.pc = "commit", !.order = Reject(u.order)]
  <2>1. unit'[p] = c \/ unit'[p] = d \/ unit'[p] = IdleUnit
    BY DEF SaveReceived, Reply, Return, Known, Safe, Shape, TypeOK
  <2>2. /\ c.pc = "raise" /\ c.ref = r /\ c.order = u.order
        /\ d.pc = "commit" /\ d.ref = r
        /\ d.order.acknowledgeBy = u.order.acknowledgeBy
    BY <1>1 DEF Unit, Order, Reject
  <2> HIDE DEF c, d
  <2> QED BY <1>2, <1>3, <1>4, <2>1, <2>2 DEF InStep, Unanswered, IdleUnit
<1> QED BY <1>6, <1>7, <1>8 DEF Single

\* The calls about the hold leave the row and the network alone.
LEMMA HoldCallStep ==
  ASSUME NEW p \in Pods, Pods = {p}, NEW u, u = unit[p], NEW r, r = u.ref,
         Known, Once, Single,
         RaiseHeldOrder(p) \/ CancelHeldOrder(p) \/ ReleaseHeldOrder(p)
  PROVE  Single'
<1> USE DEF Stored, Process
<1> DEFINE c(l) == [u EXCEPT !.pc = "cancel", !.local = l]
           d(l) == [u EXCEPT !.pc = "commit", !.local = l,
                      !.order = LinkLocalOrder(Acknowledge(u.order), l)]
           e == [u EXCEPT !.pc = "commit", !.order = Reject(u.order)]
<1>1. /\ u \in Unit /\ u.pc \in {"raise", "cancel", "release"}
      /\ u.order \in Order
  BY DEF RaiseHeldOrder, CancelHeldOrder, ReleaseHeldOrder, Known, Safe, Shape,
     TypeOK, UnitsCarry, Carries
<1>2. UNCHANGED <<clock, rows, events, answers, sweep>>
  BY DEF RaiseHeldOrder, CancelHeldOrder, ReleaseHeldOrder
<1>3. \A s \in Refs : OrderFacts(s)'
  BY <1>2, QuietOrders
<1>4. \/ unit'[p] = IdleUnit
      \/ /\ u.pc \in {"raise", "cancel"}
         /\ \/ \E l \in LocalIds : unit'[p] \in {c(l), d(l)}
            \/ unit'[p] = e
  BY DEF RaiseHeldOrder, CancelHeldOrder, ReleaseHeldOrder, Reply, Return,
     Known, Safe, Shape, TypeOK
<1>5. /\ \A l \in LocalIds :
           /\ c(l).pc = "cancel" /\ c(l).ref = r /\ c(l).order = u.order
           /\ d(l).pc = "commit" /\ d(l).ref = r
           /\ d(l).order.acknowledgeBy = u.order.acknowledgeBy
      /\ e.pc = "commit" /\ e.ref = r
      /\ e.order.acknowledgeBy = u.order.acknowledgeBy
  BY <1>1 DEF Unit, Order, LinkLocalOrder, Acknowledge, Reject
<1> HIDE DEF c, d, e
<1>6. InStep(unit[p])'
  BY <1>1, <1>2, <1>4, <1>5 DEF Single, InStep, IdleUnit
<1> QED BY <1>3, <1>6 DEF Single

\* The commit: the first answer on the order's row.
LEMMA CommitStep ==
  ASSUME NEW p \in Pods, Pods = {p}, NEW u, u = unit[p], NEW r, r = u.ref,
         Known, Once, Single, CommitAnswer(p)
  PROVE  Single'
<1> USE DEF Stored, Process
<1>1. /\ u \in Unit /\ u.pc = "commit" /\ r \in Refs /\ InFlight(p)
      /\ u.order \in Order
      /\ \/ /\ u.order.state = "ACKNOWLEDGED"
            /\ u.local \in LocalIds /\ u.local # NoLocal
         \/ u.order.state = "REJECTED" /\ u.local \in LocalIds \cup {NoLocal}
  BY OrderAssumption DEF CommitAnswer, InFlight, Known, Safe, Shape, TypeOK,
     UnitsCarry, Carries, Unit
<1>2. /\ Unanswered(rows[r]) /\ Exists(rows[r])
      /\ rows[r].acknowledgeBy = u.order.acknowledgeBy
      /\ clock <= u.order.acknowledgeBy
  BY <1>1 DEF Single, InStep, Unanswered, Exists
<1>3. /\ SaveAndPublish(r, u.order, AnswerEvent(u))
      /\ UNCHANGED <<clock, answers, sweep>>
  BY DEF CommitAnswer
<1>4. /\ AnswerEvent(u) \in Event
      /\ u.order.state = "ACKNOWLEDGED" =>
           \A reason : AnswerEvent(u) # Rejected(reason)
  BY <1>1 DEF AnswerEvent, Event, Reasons, Acknowledged, Rejected
<1>5. /\ \A s \in Refs \ {r} : rows'[s] = rows[s] /\ events'[s] = events[s]
      /\ Exists(rows'[r]) /\ rows'[r].state = u.order.state
      /\ rows'[r].acknowledgeBy = u.order.acknowledgeBy
  BY <1>1, <1>2, <1>3, UpsertRow DEF Known, Safe
<1>6. answers[r] = <<>> /\ \A reason \in Reasons : ~Recorded(r, Rejected(reason))
  BY <1>1, <1>2 DEF Single, OrderFacts, Unanswered
<1>7. OrderFacts(r)'
  <2>1. \A reason \in Reasons :
          Recorded(r, Rejected(reason))' => u.order.state = "REJECTED"
    BY <1>1, <1>3, <1>4, <1>6, OutboxAppended DEF Known, Safe, Shape
  <2>2. \A q \in Pods : ~Exists(sweep'[q].loaded[r])
    BY <1>1, <1>3, OutOfReach
  <2> QED BY <1>3, <1>5, <1>6, <2>1, <2>2 DEF OrderFacts
<1>8. ASSUME NEW s \in Refs \ {r} PROVE OrderFacts(s)'
  BY <1>3, <1>5, OrderFrame DEF Single
<1>9. InStep(unit[p])'
  <2> DEFINE v == [u EXCEPT !.pc = "submit"]
  <2>1. unit'[p] = IdleUnit \/ unit'[p] = v
    BY DEF CommitAnswer, Reply, Return, Known, Safe, Shape, TypeOK
  <2>2. v.pc = "submit" /\ v.ref = r /\ v.order = u.order
    BY <1>1 DEF Unit
  <2> HIDE DEF v
  <2> QED BY <1>2, <1>3, <1>5, <1>6, <2>1, <2>2, IdleInStep DEF InStep
<1> QED BY <1>7, <1>8, <1>9 DEF Single

\* The first and only answer to the network.
LEMMA SubmitStep ==
  ASSUME NEW p \in Pods, Pods = {p}, NEW u, u = unit[p], NEW r, r = u.ref,
         Known, Once, Single, SubmitAcknowledgement(p)
  PROVE  Single'
<1> USE DEF Stored, Process
<1>1. /\ u \in Unit /\ u.pc = "submit" /\ r \in Refs
      /\ u.order.state \in {"ACKNOWLEDGED", "REJECTED"}
  BY DEF SubmitAcknowledgement, Known, Safe, Shape, TypeOK, UnitsCarry, Carries
<1>2. /\ rows[r].state = u.order.state /\ answers[r] = <<>>
      /\ rows[r].acknowledgeBy = u.order.acknowledgeBy
      /\ clock <= u.order.acknowledgeBy
  BY <1>1 DEF Once, OnceFor, Single, InStep
<1>3. UNCHANGED <<clock, rows, events, sweep>>
  BY DEF SubmitAcknowledgement
<1>4. /\ answers'[r] = <<u.order.state>>
      /\ \A s \in Refs \ {r} : answers'[s] = answers[s]
  BY <1>1, <1>2 DEF SubmitAcknowledgement, Known, Safe, Shape, TypeOK
<1>5. OrderFacts(r)'
  <2>1. OrderFacts(r) /\ Exists(rows[r])
    BY <1>1, <1>2 DEF Single, Exists
  <2>2. \A e : Recorded(r, e)' = Recorded(r, e)
    BY <1>3 DEF Recorded
  <2> QED BY <1>1, <1>2, <1>3, <1>4, <2>1, <2>2 DEF OrderFacts
<1>6. ASSUME NEW s \in Refs \ {r} PROVE OrderFacts(s)'
  BY <1>3, <1>4, OrderFrame DEF Single
<1>7. InStep(unit[p])'
  <2> DEFINE v == [u EXCEPT !.pc = "release"]
  <2>1. \/ unit'[p] = IdleUnit
        \/ u.order.state = "ACKNOWLEDGED" /\ unit'[p] = v
    BY DEF SubmitAcknowledgement, Known, Safe, Shape, TypeOK
  <2>2. v.pc = "release" /\ v.ref = r /\ v.order = u.order
    BY <1>1 DEF Unit
  <2> HIDE DEF v
  <2> QED BY <1>2, <1>3, <1>4, <2>1, <2>2, IdleInStep DEF InStep
<1> QED BY <1>5, <1>6, <1>7 DEF Single

\* The sweep misses an order of which the window has closed, so not the one
\* in flight, and the network was not told of it.
LEMMA MissStep ==
  ASSUME NEW p \in Pods, Pods = {p}, NEW r \in Refs, Known, Once, Single,
         MissOne(p, r)
  PROVE  Single'
<1> USE DEF Stored, Process
<1> DEFINE o == sweep[p].loaded[r]
<1>1. /\ Exists(o) /\ o \in Order /\ o.state = "NEW" /\ o.local = NoLocal
  BY DEF MissOne, Passed, Known, Safe, Shape, LoadedUnanswered
<1>2. /\ Reject(o) \in Order /\ Reject(o).state = "REJECTED"
      /\ Missed \in Event
  BY <1>1 DEF Reject, Order, State, Missed, Event, Reasons
<1>3. SaveAndPublish(r, Reject(o), Missed) /\ UNCHANGED <<clock, answers, unit>>
  BY DEF MissOne, Missed
<1>4. holds' = holds
  BY <1>1, OrderAssumption DEF MissOne, Known, Safe, Shape, TypeOK
<1>5. /\ Unanswered(rows[r]) /\ Exists(rows[r]) /\ OrderFacts(r)
  BY <1>1 DEF Single, OrderFacts, Unanswered, Exists
<1> HIDE DEF o
<1>6. /\ \A s \in Refs \ {r} : rows'[s] = rows[s] /\ events'[s] = events[s]
      /\ Exists(rows'[r]) /\ rows'[r].state = "REJECTED"
  BY <1>2, <1>3, UpsertRow DEF Known, Safe
<1>7. \A q \in Pods, s \in Refs :
        sweep'[q].loaded[s] = IF s = r THEN NoOrder ELSE sweep[q].loaded[s]
  BY DEF MissOne, Passed, Known, Safe, Shape, TypeOK, Sweep
<1>8. OrderFacts(r)'
  <2>1. answers[r] = <<>> /\ \A reason \in Reasons : ~Recorded(r, Rejected(reason))
    BY <1>5 DEF OrderFacts, Unanswered
  <2>2. /\ "INFEASIBLE_DEADLINE" \in Reasons /\ "UNTRANSLATABLE_SKU" \in Reasons
        /\ Rejected("INFEASIBLE_DEADLINE") # Missed
        /\ Rejected("UNTRANSLATABLE_SKU") # Missed
    BY DEF Reasons, Rejected, Missed
  <2>3. /\ ~Recorded(r, Rejected("INFEASIBLE_DEADLINE"))'
        /\ ~Recorded(r, Rejected("UNTRANSLATABLE_SKU"))'
    BY <1>2, <1>3, <2>1, <2>2, OutboxAppended DEF Known, Safe, Shape
  <2>4. \A q \in Pods : ~Exists(sweep'[q].loaded[r])
    BY <1>7 DEF Exists, NoOrder
  <2> QED BY <1>3, <1>4, <1>5, <1>6, <2>1, <2>3, <2>4 DEF OrderFacts
<1>9. ASSUME NEW s \in Refs \ {r} PROVE OrderFacts(s)'
  BY <1>3, <1>4, <1>6, <1>7, OrderFrame DEF Single
<1>10. InStep(unit[p])'
  <2>1. CASE unit[p].pc = "idle"
    BY <1>3, <2>1 DEF InStep
  <2>2. CASE unit[p].pc # "idle"
    <3>1. unit[p].ref \in Refs /\ InFlight(p)
      BY <2>2 DEF InFlight, Known, Safe, Shape, UnitsCarry, Carries
    <3>2. unit[p].ref # r
      BY <1>1, <3>1, OutOfReach DEF o
    <3> QED BY <1>3, <1>4, <1>6, <3>1, <3>2, UnitFrame
  <2> QED BY <2>1, <2>2
<1> QED BY <1>8, <1>9, <1>10 DEF Single

\* Every step of the one pod keeps what holds.
LEMMA SingleStep ==
  ASSUME NEW the, Pods = {the}, Prompt = TRUE, Known, Once, Single,
         [Next]_vars
  PROVE  Single'
<1> USE DEF Stored, Process
<1>0. /\ unit \in [Pods -> Unit] /\ sweep \in [Pods -> Sweep] /\ clock \in Nat
      /\ \A p \in Pods : Carries(unit[p])
      /\ ~Exists(NoOrder)
      /\ \A p \in Pods, r \in Refs :
           Exists(sweep[p].loaded[r]) => Unanswered(rows[r])
  BY DEF Known, Safe, Shape, TypeOK, UnitsCarry, Exists, NoOrder, Single,
     OrderFacts
<1>1. ASSUME UNCHANGED <<clock, rows, events, answers, unit>>,
             \A r \in Refs : OrderFacts(r)'
      PROVE  Single'
  <2>1. ASSUME NEW p \in Pods PROVE InStep(unit[p])'
    BY <1>1 DEF Single, InStep
  <2> QED BY <1>1, <2>1 DEF Single
<1>2. CASE Tick
  <2>1. /\ clock' = clock + 1 /\ UNCHANGED <<rows, events, answers, unit, sweep>>
        /\ \A p \in Pods : InFlight(p) => clock < unit[p].order.acknowledgeBy
    BY <1>2 DEF Tick
  <2>2. \A r \in Refs : OrderFacts(r)'
    BY <2>1, QuietOrders
  <2>3. ASSUME NEW p \in Pods PROVE InStep(unit[p])'
    <3>1. unit[p].pc # "idle" => unit[p].order.acknowledgeBy \in Nat
      BY <1>0 DEF Carries, Order
    <3>2. InStep(unit[p])
      BY DEF Single
    <3> QED BY <1>0, <2>1, <3>1, <3>2 DEF InStep, InFlight
  <2> QED BY <2>2, <2>3 DEF Single
<1>3. ASSUME NEW p \in Pods, NEW r \in Refs, TakeUp(p, r) PROVE Single'
  <2>1. /\ UNCHANGED <<clock, rows, events, answers, sweep>>
        /\ ~Exists(rows[r])
    BY <1>3 DEF TakeUp, FindByRef
  <2>2. \A s \in Refs : OrderFacts(s)'
    BY <2>1, QuietOrders
  <2>3. /\ unit'[p].pc = "save" /\ unit'[p].ref = r
        /\ unit'[p].order.acknowledgeBy = clock + Window
    BY <1>0, <1>3 DEF TakeUp, Receive, ReceiveUntranslatable
  <2>4. InStep(unit[p])'
    BY <1>0, <2>1, <2>3, OrderAssumption DEF InStep
  <2>5. \A q \in Pods : q = p
    OBVIOUS
  <2> QED BY <2>2, <2>4, <2>5 DEF Single
<1>4. ASSUME NEW p \in Pods, LoadFails(p) \/ CallFails(p) \/ Restart(p)
      PROVE  Single'
  <2>1. /\ UNCHANGED <<clock, rows, events, answers>>
        /\ sweep' = sweep \/ sweep' = [sweep EXCEPT ![p] = IdleSweep]
        /\ unit' = unit \/ unit' = [unit EXCEPT ![p] = IdleUnit]
    BY <1>4 DEF LoadFails, CallFails, Restart, Return
  <2>2. \A q \in Pods, r \in Refs :
          Exists(sweep'[q].loaded[r]) => Exists(sweep[q].loaded[r])
    BY <1>0, <2>1 DEF IdleSweep
  <2>3. \A r \in Refs : OrderFacts(r)'
    BY <2>1, <2>2, QuietOrders
  <2>4. CASE unit' = unit
    BY <1>1, <2>1, <2>3, <2>4
  <2>5. CASE unit' = [unit EXCEPT ![p] = IdleUnit]
    <3>1. \A q \in Pods : unit'[q] = IdleUnit
      BY <1>0, <2>5
    <3> QED BY <2>3, <3>1, IdleInStep DEF Single
  <2> QED BY <2>1, <2>4, <2>5
<1>5. ASSUME NEW p \in Pods,
             \/ PollDemand(p) \/ ListUnanswered(p)
             \/ \E r \in Refs : PassOver(p, r) \/ MissFails(p, r)
      PROVE  Single'
  <2>1. UNCHANGED <<clock, rows, events, answers, unit>>
    BY <1>5 DEF PollDemand, ListUnanswered, PassOver, MissFails
  <2>2. \A q \in Pods, s \in Refs :
          Exists(sweep'[q].loaded[s]) => Exists(sweep[q].loaded[s])
    BY <1>0, <1>5
    DEF PollDemand, ListUnanswered, PassOver, MissFails, Passed, Sweep
  <2> QED BY <1>1, <2>1, <2>2, QuietOrders
<1>6. ASSUME NEW p \in Pods, NEW r \in Refs, LoadListed(p, r) PROVE Single'
  <2>1. UNCHANGED <<clock, rows, events, answers, unit>>
    BY <1>6 DEF LoadListed
  <2>2. \A q \in Pods, s \in Refs : Exists(sweep'[q].loaded[s]) =>
          \/ Exists(sweep[q].loaded[s])
          \/ s = r /\ Unanswered(rows[r])
    BY <1>0, <1>6
    DEF LoadListed, FindByRef, AcknowledgementOverdue, Unanswered, Sweep
  <2>3. \A q \in Pods, s \in Refs :
          Exists(sweep'[q].loaded[s]) => Unanswered(rows[s])
    BY <1>0, <2>2
  <2>4. ASSUME NEW s \in Refs PROVE OrderFacts(s)'
    <3>1. \A e : Recorded(s, e)' = Recorded(s, e)
      BY <2>1 DEF Recorded
    <3> QED BY <2>1, <2>3, <3>1 DEF Single, OrderFacts
  <2> QED BY <1>1, <2>1, <2>4
<1>7. ASSUME NEW p \in Pods, Step(p) PROVE Single'
  <2>1. Pods = {p}
    OBVIOUS
  <2> QED BY <1>4, <1>7, <2>1, SaveReceivedStep, HoldCallStep,
             CommitStep, SubmitStep DEF Step
<1>8. ASSUME NEW p \in Pods, NEW r \in Refs, MissOne(p, r) PROVE Single'
  <2>1. Pods = {p}
    OBVIOUS
  <2> QED BY <1>8, <2>1, MissStep
<1>9. CASE UNCHANGED vars
  BY <1>1, <1>9, QuietOrders DEF vars
<1> QED BY <1>2, <1>3, <1>4, <1>5, <1>6, <1>7, <1>8, <1>9 DEF Next

-----------------------------------------------------------------------------
\* One prompt pod: all that holds, always.
LEMMA AlwaysSingle ==
  ASSUME NEW the, Pods = {the}, Prompt = TRUE
  PROVE  Spec => [](Known /\ Once /\ Single)
<1>1. Known /\ Once /\ Single /\ [Next]_vars => Single'
  BY SingleStep
<1> QED BY <1>1, AlwaysOnce, SingleInit, PTL DEF Spec

\* The network is answered once, and with what is on record from then on.
THEOREM OneReplicaAnswersOnce ==
  ASSUME NEW the, Pods = {the}, Prompt = TRUE
  PROVE  Spec => []OneAnswer
<1>1. Single => OneAnswer
  BY DEF Single, OrderFacts, OneAnswer
<1> QED BY <1>1, AlwaysSingle, PTL

\* The promises to the network, kept by one prompt replica: a save takes or
\* answers, a miss answers, SubmitAcknowledgement tells, ReleaseHeldOrder
\* releases, and no other step is visible.
THEOREM OneReplicaKeepsPromises ==
  ASSUME NEW the, Pods = {the}, Prompt = TRUE
  PROVE  Spec => ImplementsProtocol
<1> DEFINE Status == [r \in Refs |-> rows[r].state]
           Floor == {r \in Refs : \E l \in LocalIds :
                       holds[l] = [ref |-> r, status |-> "released"]}
<1> USE DEF Stored, Process
<1>1. Init => Protocol!ProtocolInit
  BY DEF Init, NoOrder, Protocol!ProtocolInit
<1>2. ASSUME Known, Once, Single, Known', [Next]_vars
      PROVE  [Protocol!ProtocolNext]_(Protocol!protocolVars)
  <2>0. /\ answers \in [Refs -> Seq(State)] /\ holds \in [LocalIds -> Hold]
        /\ \A p \in Pods : unit[p] \in Unit /\ Carries(unit[p])
    BY <1>2 DEF Known, Safe, Shape, TypeOK, UnitsCarry
  <2>1. ASSUME NEW r \in Refs, UNCHANGED <<answers, holds>>,
               \A s \in Refs \ {r} : rows'[s] = rows[s],
               \/ rows[r].state = "NONE" /\ rows'[r].state = "NEW"
               \/ /\ rows[r].state = "NEW"
                  /\ rows'[r].state \in {"ACKNOWLEDGED", "REJECTED"}
        PROVE  Protocol!ProtocolNext
    <3>1. Status' = [Status EXCEPT ![r] = rows'[r].state] /\ Floor' = Floor
      BY <2>1
    <3>2. Status[r] = rows[r].state
      OBVIOUS
    <3> HIDE DEF Status, Floor
    <3>3. Protocol!Take(r) \/ Protocol!Answer(r)
      BY <2>1, <3>1, <3>2 DEF Protocol!Take, Protocol!Answer, Status, Floor
    <3> QED BY <3>3 DEF Protocol!ProtocolNext
  <2>2. ASSUME UNCHANGED <<rows, answers>>, Floor' = Floor
        PROVE  UNCHANGED Protocol!protocolVars
    BY <2>2 DEF Protocol!protocolVars
  <2>3. ASSUME NEW p \in Pods, SaveReceived(p)
        PROVE  Protocol!ProtocolNext
    <3>1. /\ unit[p].ref \in Refs /\ unit[p].order \in Order
          /\ unit[p].order.state = "NEW" /\ rows[unit[p].ref].state = "NONE"
      BY <1>2, <2>0, <2>3
      DEF SaveReceived, Carries, Once, OnceFor, Exists
    <3>2. /\ SaveAndPublish(unit[p].ref, unit[p].order, Received)
          /\ UNCHANGED <<answers, holds>>
      BY <2>3 DEF SaveReceived
    <3>3. /\ \A s \in Refs \ {unit[p].ref} : rows'[s] = rows[s]
          /\ rows'[unit[p].ref].state = "NEW"
      BY <1>2, <3>1, <3>2, UpsertRow DEF Known, Safe
    <3> QED BY <2>1, <3>1, <3>2, <3>3
  <2>4. ASSUME NEW p \in Pods, CommitAnswer(p)
        PROVE  Protocol!ProtocolNext
    <3>1. /\ unit[p].ref \in Refs /\ unit[p].order \in Order
          /\ unit[p].order.state \in {"ACKNOWLEDGED", "REJECTED"}
          /\ rows[unit[p].ref].state = "NEW"
      BY <1>2, <2>0, <2>4
      DEF CommitAnswer, Carries, Single, InStep, Unanswered
    <3>2. /\ SaveAndPublish(unit[p].ref, unit[p].order, AnswerEvent(unit[p]))
          /\ UNCHANGED <<answers, holds>>
      BY <2>4 DEF CommitAnswer
    <3>3. /\ \A s \in Refs \ {unit[p].ref} : rows'[s] = rows[s]
          /\ rows'[unit[p].ref].state = unit[p].order.state
      BY <1>2, <3>1, <3>2, UpsertRow DEF Known, Safe
    <3> QED BY <2>1, <3>1, <3>2, <3>3
  <2>5. ASSUME NEW p \in Pods, NEW r \in Refs, MissOne(p, r)
        PROVE  Protocol!ProtocolNext
    <3> DEFINE o == sweep[p].loaded[r]
    <3>1. /\ o \in Order /\ o.local = NoLocal
          /\ rows[r].state = "NEW"
      BY <1>2, <2>5 DEF MissOne, Passed, Known, Safe, Shape, LoadedUnanswered,
         Single, OrderFacts, Unanswered
    <3>2. Reject(o) \in Order /\ Reject(o).state = "REJECTED"
      BY <3>1 DEF Reject, Order, State
    <3>3. SaveAndPublish(r, Reject(o), Missed) /\ UNCHANGED answers
      BY <2>5 DEF MissOne, Missed
    <3>4. holds' = holds
      BY <2>0, <2>5, <3>1, OrderAssumption DEF MissOne
    <3> HIDE DEF o
    <3>5. /\ \A s \in Refs \ {r} : rows'[s] = rows[s]
          /\ rows'[r].state = "REJECTED"
      BY <1>2, <3>2, <3>3, UpsertRow DEF Known, Safe
    <3> QED BY <2>1, <3>1, <3>3, <3>4, <3>5
  <2>6. ASSUME NEW p \in Pods, SubmitAcknowledgement(p)
        PROVE  Protocol!ProtocolNext
    <3>1. PICK r \in Refs : r = unit[p].ref
      BY <2>0, <2>6 DEF SubmitAcknowledgement, Carries
    <3>2. /\ rows[r].state = unit[p].order.state /\ answers[r] = <<>>
          /\ rows[r].state \in {"ACKNOWLEDGED", "REJECTED"}
      BY <1>2, <2>0, <2>6, <3>1
      DEF SubmitAcknowledgement, Carries, Once, OnceFor, Single, InStep
    <3>3. UNCHANGED <<rows, holds>>
          /\ answers' = [answers EXCEPT ![r] = <<rows[r].state>>]
      BY <2>0, <2>6, <3>1, <3>2 DEF SubmitAcknowledgement
    <3>4. Status' = Status /\ Floor' = Floor /\ Status[r] = rows[r].state
      BY <3>3
    <3> HIDE DEF Status, Floor
    <3>5. Protocol!Tell(r)
      BY <3>2, <3>3, <3>4 DEF Protocol!Tell, Status, Floor
    <3> QED BY <3>5 DEF Protocol!ProtocolNext
  <2>7. ASSUME NEW p \in Pods, ReleaseHeldOrder(p)
        PROVE  Protocol!ProtocolNext
    <3>1. PICK r \in Refs : r = unit[p].ref
      BY <2>0, <2>7 DEF ReleaseHeldOrder, Carries
    <3>2. /\ answers[r] = <<"ACKNOWLEDGED">>
          /\ unit[p].local \in LocalIds /\ unit[p].local # NoLocal
      BY <1>2, <2>0, <2>7, <3>1, OrderAssumption
      DEF ReleaseHeldOrder, Carries, Single, InStep
    <3>3. holds[unit[p].local].ref = r
      BY <1>2, <3>1, <3>2 DEF Known, Safe, HoldsOwned, OwnsHold, Owned
    <3>4. UNCHANGED <<rows, answers>>
          /\ holds' = [holds EXCEPT ![unit[p].local].status = "released"]
      BY <2>7 DEF ReleaseHeldOrder
    <3>5. /\ holds'[unit[p].local] = [ref |-> r, status |-> "released"]
          /\ \A l \in LocalIds \ {unit[p].local} : holds'[l] = holds[l]
      BY <2>0, <3>2, <3>3, <3>4 DEF Hold
    <3>6. Floor' = Floor \cup {r}
      BY <3>2, <3>3, <3>5
    <3>7. Status' = Status
      BY <3>4
    <3> HIDE DEF Status, Floor
    <3>8. Protocol!Release(r)
      BY <3>2, <3>4, <3>6, <3>7 DEF Protocol!Release, Status, Floor
    <3> QED BY <3>8 DEF Protocol!ProtocolNext
  <2>8. ASSUME NEW p \in Pods, RaiseHeldOrder(p) \/ CancelHeldOrder(p)
        PROVE  UNCHANGED Protocol!protocolVars
    <3>1. UNCHANGED <<rows, answers>>
      BY <2>8 DEF RaiseHeldOrder, CancelHeldOrder
    <3>2. PICK l \in LocalIds :
            /\ \A m \in LocalIds \ {l} : holds'[m] = holds[m]
            /\ holds[l].status # "released" /\ holds'[l].status # "released"
      <4>1. CASE RaiseHeldOrder(p)
        <5>1. PICK l \in LocalIds :
                /\ holds[l].status = "free"
                /\ holds' = [holds EXCEPT ![l] =
                               [ref |-> unit[p].ref, status |-> "held"]]
          BY <4>1 DEF RaiseHeldOrder
        <5> QED BY <2>0, <5>1
      <4>2. CASE CancelHeldOrder(p)
        <5>1. /\ unit[p].local \in LocalIds /\ unit[p].local # NoLocal
              /\ unit[p].pc = "cancel"
              /\ holds' = [holds EXCEPT ![unit[p].local].status = "cancelled"]
          BY <2>0, <4>2, OrderAssumption DEF CancelHeldOrder, Carries
        <5>2. holds[unit[p].local].status = "held"
          BY <1>2, <5>1 DEF Known, Safe, HoldsOwned, OwnsHold, Owned
        <5> QED BY <2>0, <5>1, <5>2 DEF Hold
      <4> QED BY <2>8, <4>1, <4>2
    <3>3. Floor' = Floor
      BY <3>2
    <3> QED BY <2>2, <3>1, <3>3
  <2>9. ASSUME NEW p \in Pods,
               \/ PollDemand(p) \/ CallFails(p) \/ LoadFails(p)
               \/ ListUnanswered(p) \/ Restart(p)
               \/ \E r \in Refs :
                    \/ PassOver(p, r) \/ TakeUp(p, r) \/ LoadListed(p, r)
                    \/ MissFails(p, r)
        PROVE  UNCHANGED Protocol!protocolVars
    <3>1. UNCHANGED <<rows, answers, holds>>
      BY <2>9 DEF PollDemand, CallFails, LoadFails, ListUnanswered, Restart,
         PassOver, TakeUp, LoadListed, MissFails
    <3> QED BY <2>2, <3>1
  <2>10. CASE Tick \/ UNCHANGED vars
    <3>1. UNCHANGED <<rows, answers, holds>>
      BY <2>10 DEF Tick, vars
    <3> QED BY <2>2, <3>1
  <2> QED BY <1>2, <2>3, <2>4, <2>5, <2>6, <2>7, <2>8, <2>9, <2>10
          DEF Next, Step
<1> QED BY <1>1, <1>2, AlwaysSingle, PTL
        DEF Spec, ImplementsProtocol, Protocol!ProtocolSpec
=============================================================================
