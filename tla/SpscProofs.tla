----------------------------- MODULE SpscProofs -----------------------------
(***************************************************************************)
(* Proofs about Spsc, for any number of messages that a usize can count.   *)
(*                                                                         *)
(* The count `pending' runs behind and ahead of the deque.  What it means  *)
(* is its Lead: the messages counted and not yet taken off the count, which*)
(* is -1 while the receiver is through with a message that the sender is   *)
(* still to count.                                                         *)
(***************************************************************************)
EXTENDS Spsc, TLAPS

USE SMTT(60), ZenonT(60)

\* A usize counts the messages, and has values for -1, 0, 1 and 2.
SpscConstants ==
  /\ Messages \in Nat /\ Usize \in Nat /\ Messages < Usize /\ 3 < Usize
  /\ EarlySends \in BOOLEAN

SpscTypeOK ==
  /\ deque \in Seq(Nat) /\ received \in Seq(Nat)
  /\ pending \in 0 .. (Usize - 1)
  /\ sender \in {"idle", "add", "set"}
  /\ receiver \in [at : {"register", "fill", "wait", "steal", "load", "unset", "sub", "reset"},
                   first : Nat]
  /\ sent \in 0 .. Messages

\* The receiver has taken a message and not yet taken it off the count.
Holding == receiver.at \in {"load", "unset", "sub"}

Lead == Len(deque) + (IF Holding THEN 1 ELSE 0) - (IF sender = "add" THEN 1 ELSE 0)

\* The count is Lead, wrapped at -1.
CountInv ==
  /\ SpscTypeOK
  /\ Len(deque) + Len(received) = sent
  /\ Holding => Len(received) > 0
  /\ pending = IF Lead = -1 THEN Usize - 1 ELSE Lead

\* What modular arithmetic does to the count.
LEMMA Wraps ==
  ASSUME SpscConstants, NEW n \in 0 .. (Usize - 1)
  PROVE  /\ n + 1 < Usize => (n + 1) % Usize = n + 1
         /\ n = Usize - 1 => (n + 1) % Usize = 0
         /\ n > 0 => (n - 1) % Usize = n - 1
         /\ n = 0 => (n - 1) % Usize = Usize - 1
BY DEF SpscConstants

\* The sequences of the queue grow at the end and lose their first message.
LEMMA Moves ==
  ASSUME NEW s \in Seq(Nat), NEW x \in Nat
  PROVE  /\ Append(s, x) \in Seq(Nat) /\ Len(Append(s, x)) = Len(s) + 1 /\ Len(s) \in Nat
         /\ s # <<>> => /\ Tail(s) \in Seq(Nat) /\ Len(Tail(s)) = Len(s) - 1
                        /\ Head(s) \in Nat /\ Len(s) > 0
         /\ Len(s) > 0 => s # <<>>
OBVIOUS

LEMMA CountInit ==
  ASSUME SpscConstants, SpscInit
  PROVE  CountInv
<1>1. SpscTypeOK
  BY DEF SpscConstants, SpscInit, SpscTypeOK
<1>2. Len(deque) = 0 /\ Len(received) = 0 /\ ~Holding /\ Lead = 0
  BY DEF SpscInit, Holding, Lead
<1> QED
  BY <1>1, <1>2 DEF CountInv, SpscInit

\* The lead in numbers: at least -1, at most what was sent.
LEMMA LeadBounds ==
  ASSUME SpscConstants, CountInv
  PROVE  /\ Lead \in Int /\ -1 <= Lead /\ Lead <= sent
         /\ pending = 0 <=> Lead = 0
         /\ pending = 1 <=> Lead = 1
         /\ Lead >= 0 => pending = Lead
<1>1. Len(deque) \in Nat /\ Len(received) \in Nat /\ sent \in Nat /\ sent <= Messages
  BY Moves DEF CountInv, SpscTypeOK, SpscConstants
<1>2. Lead \in Int /\ -1 <= Lead /\ Lead <= sent
  BY <1>1 DEF Lead, CountInv
<1> QED
  BY <1>1, <1>2 DEF CountInv, SpscConstants

LEMMA CountStep ==
  ASSUME SpscConstants, CountInv, [SpscNext]_vars
  PROVE  CountInv'
<1>0. /\ Lead \in Int /\ -1 <= Lead /\ Lead <= sent
      /\ pending = 0 <=> Lead = 0
      /\ Lead >= 0 => pending = Lead
  BY LeadBounds
<1>a. Len(deque) \in Nat /\ Len(received) \in Nat
  BY Moves DEF CountInv, SpscTypeOK
<1> USE DEF CountInv, SpscTypeOK, SpscConstants
<1>1. CASE push
  <2>1. Append(deque, sent + 1) \in Seq(Nat) /\ Len(Append(deque, sent + 1)) = Len(deque) + 1
    BY Moves
  <2>2. SpscTypeOK'
    <3>1. deque' \in Seq(Nat) /\ sender' = "add" /\ sent' \in 0 .. Messages
      BY <1>1, <2>1 DEF push
    <3>2. UNCHANGED <<received, pending, receiver>>
      BY <1>1 DEF push
    <3> QED
      BY <3>1, <3>2
  <2>3. Holding' <=> Holding
    BY <1>1 DEF push, Holding
  <2>4. Lead' = Lead
    BY <1>1, <2>1, <2>3, <1>a DEF push, SendAt, Lead
  <2>5. Len(deque') = Len(deque) + 1 /\ sent' = sent + 1 /\ UNCHANGED <<received, pending>>
    BY <1>1, <2>1 DEF push
  <2>6. Len(deque') + Len(received') = sent' /\ (Holding' => Len(received') > 0)
    BY <2>3, <2>5, <1>a
  <2>7. pending' = IF Lead' = -1 THEN Usize - 1 ELSE Lead'
    BY <2>4, <2>5
  <2> QED
    BY <2>2, <2>6, <2>7
<1>2. CASE IncAdd
  <2>1. Lead' = Lead + 1 /\ (Holding' <=> Holding)
    BY <1>2, <1>a DEF IncAdd, SendAt, Holding, Lead
  <2>2. pending' = (pending + 1) % Usize
    BY <1>2 DEF IncAdd
  <2>3. pending' = IF Lead = -1 THEN 0 ELSE Lead + 1
    <3>1. CASE Lead = -1
      BY <2>2, <3>1, Wraps
    <3>2. CASE Lead # -1
      <4>1. Lead < sent
        BY <1>2, <1>a DEF IncAdd, SendAt, Lead, Holding
      <4> QED
        BY <4>1, <3>2, <2>2, <1>0, Wraps
    <3> QED
      BY <3>1, <3>2
  <2>4. pending' \in 0 .. (Usize - 1)
    <3>1. Lead < sent
      BY <1>2, <1>a DEF IncAdd, SendAt, Lead, Holding
    <3> QED
      BY <3>1, <2>3, <1>0
  <2>5. SpscTypeOK'
    BY <1>2, <2>4 DEF IncAdd
  <2> QED
    BY <1>2, <2>1, <2>3, <2>5, <1>0 DEF IncAdd
<1>3. CASE IncSet
  <2>1. Lead' = Lead /\ (Holding' <=> Holding)
    BY <1>3 DEF IncSet, SendAt, Holding, Lead
  <2> QED
    BY <1>3, <2>1 DEF IncSet
<1>4. CASE RegisterLoad \/ RegisterFill \/ Wake \/ DecUnset \/ DecReset
  <2>1. receiver'.at \in {"fill", "wait", "steal", "sub"} /\ receiver'.first = receiver.first
        /\ (Holding' <=> Holding)
    BY <1>4 DEF RegisterLoad, RegisterFill, Wake, DecUnset, DecReset, ReceiveAt, Holding
  <2>2. UNCHANGED <<deque, pending, sender, sent, received>>
    BY <1>4 DEF RegisterLoad, RegisterFill, Wake, DecUnset, DecReset
  <2>3. receiver' \in [at : {"register", "fill", "wait", "steal", "load", "unset", "sub", "reset"},
                       first : Nat]
    BY <1>4 DEF RegisterLoad, RegisterFill, Wake, DecUnset, DecReset
  <2>4. Lead' = Lead
    BY <2>1, <2>2 DEF Lead
  <2> QED
    BY <2>1, <2>2, <2>3, <2>4
<1>5. CASE try_recv
  <2>1. CASE deque = <<>>
    <3>1. Lead' = Lead /\ (Holding' <=> Holding)
      BY <1>5, <2>1 DEF try_recv, ReceiveAt, Holding, Lead
    <3> QED
      BY <1>5, <2>1, <3>1 DEF try_recv, Holding
  <2>2. CASE deque # <<>>
    <3>1. /\ Tail(deque) \in Seq(Nat) /\ Len(Tail(deque)) = Len(deque) - 1 /\ Head(deque) \in Nat
          /\ Append(received, Head(deque)) \in Seq(Nat)
          /\ Len(Append(received, Head(deque))) = Len(received) + 1
      BY <2>2, Moves
    <3>2. Holding' /\ ~Holding
      BY <1>5, <2>2 DEF try_recv, ReceiveAt, Holding
    <3>3. deque' = Tail(deque) /\ received' = Append(received, Head(deque))
      BY <1>5, <2>2 DEF try_recv
    <3>4. Lead' = Lead
      BY <1>5, <3>1, <3>2, <3>3, <1>a DEF Lead, try_recv
    <3>5. SpscTypeOK'
      BY <1>5, <3>1, <3>3, <2>2 DEF try_recv
    <3> QED
      BY <1>5, <3>1, <3>3, <3>4, <3>5, <1>a DEF try_recv
  <2> QED
    BY <2>1, <2>2
<1>6. CASE DecLoad
  <2>1. Lead' = Lead /\ Holding /\ Holding'
    BY <1>6 DEF DecLoad, ReceiveAt, Holding, Lead
  <2>2. receiver' \in [at : {"register", "fill", "wait", "steal", "load", "unset", "sub", "reset"},
                       first : Nat]
    <3>1. pending \in Nat
      OBVIOUS
    <3>2. PICK p \in {"unset", "sub"} : receiver' = [receiver EXCEPT !.at = p, !.first = pending]
      BY <1>6 DEF DecLoad
    <3> QED
      BY <3>1, <3>2
  <2>3. UNCHANGED <<deque, pending, sender, sent, received>>
    BY <1>6 DEF DecLoad
  <2> QED
    BY <2>1, <2>2, <2>3
<1>7. CASE DecSub
  <2>1. Holding /\ ~Holding'
    BY <1>7 DEF DecSub, ReceiveAt, Holding
  <2>2. Lead' = Lead - 1 /\ Lead >= 0
    <3>1. deque' = deque /\ sender' = sender
      BY <1>7 DEF DecSub
    <3> QED
      BY <3>1, <2>1, <1>a DEF Lead
  <2>3. pending' = IF Lead = 0 THEN Usize - 1 ELSE Lead - 1
    BY <1>7, <2>2, <1>0, Wraps DEF DecSub
  <2>4. pending' \in 0 .. (Usize - 1)
    BY <2>2, <2>3, <1>0
  <2>5. SpscTypeOK'
    BY <1>7, <2>4 DEF DecSub
  <2> QED
    BY <1>7, <2>1, <2>2, <2>3, <2>5, <1>0 DEF DecSub
<1>8. CASE UNCHANGED vars
  BY <1>8 DEF vars, Lead, Holding
<1> QED
  BY <1>1, <1>2, <1>3, <1>4, <1>5, <1>6, <1>7, <1>8
     DEF SpscNext, inc, Receive, register, dec

\* When both threads rest the count is the number of messages in the deque, also
\* when the sender did not wait for the registration.
THEOREM CountCorrect ==
  ASSUME SpscConstants
  PROVE  SpscSpec => []CountIsExact
<1>1. CountInv => CountIsExact
  BY LeadBounds, Moves DEF CountInv, CountIsExact, SendAt, Lead, Holding, SpscTypeOK
<1> QED
  BY <1>1, CountInit, CountStep, PTL DEF SpscSpec

-----------------------------------------------------------------------------
\* Nothing happens before the registration; what the receiver remembers of the
\* count is that it was at least 1; and the queue is readable when messages are
\* counted, unless a thread is about to make it so.
WakeInv ==
  /\ CountInv
  /\ ~registered => sent = 0 /\ sender = "idle" /\ receiver.at \in {"register", "fill"}
  /\ registered => receiver.at \notin {"register", "fill"}
  /\ receiver.at = "unset" => receiver.first = 1
  /\ receiver.at \in {"unset", "sub"} /\ receiver.first = 1 => Lead >= 1
  /\ Lead >= 1 => \/ readiness \/ sender = "set" \/ receiver.at = "reset"
                  \/ receiver.at = "sub" /\ receiver.first = 1

LEMMA WakeInit ==
  ASSUME SpscConstants, SpscInit
  PROVE  WakeInv
<1>1. CountInv /\ Lead = 0
  <2>1. Len(deque) = 0 /\ ~Holding /\ sender # "add"
    BY DEF SpscInit, Holding
  <2> QED
    BY <2>1, CountInit DEF Lead
<1>2. registered = FALSE /\ receiver.at = "register" /\ sent = 0 /\ sender = "idle"
  BY DEF SpscInit
<1> QED
  BY <1>1, <1>2 DEF WakeInv

LEMMA WakeStep ==
  ASSUME SpscConstants, ~EarlySends, WakeInv, [SpscNext]_vars
  PROVE  WakeInv'
<1>0. CountInv /\ CountInv'
  BY CountStep DEF WakeInv
<1>a. /\ Lead \in Int /\ -1 <= Lead
      /\ pending = 0 <=> Lead = 0
      /\ pending = 1 <=> Lead = 1
      /\ Lead >= 0 => pending = Lead
  BY <1>0, LeadBounds
<1>b. /\ Len(deque) \in Nat /\ Len(received) \in Nat
      /\ sender \in {"idle", "add", "set"}
      /\ receiver \in [at : {"register", "fill", "wait", "steal", "load", "unset", "sub", "reset"},
                       first : Nat]
  BY <1>0, Moves DEF CountInv, SpscTypeOK
<1> USE DEF WakeInv
<1>1. CASE push
  <2>1. Len(deque') = Len(deque) + 1
    BY <1>0, <1>1, Moves DEF push, CountInv, SpscTypeOK, SpscConstants
  <2>2. Lead' = Lead
    BY <1>1, <2>1, <1>b DEF push, SendAt, Holding, Lead
  <2> QED
    BY <1>0, <1>1, <2>2 DEF push, SendAt
<1>2. CASE IncAdd
  <2>1. Lead' = Lead + 1
    BY <1>2, <1>b DEF IncAdd, SendAt, Holding, Lead
  <2>2. Lead' >= 1 => Lead >= 1 \/ sender' = "set"
    BY <1>2, <2>1, <1>a DEF IncAdd
  <2> QED
    BY <1>0, <1>2, <1>a, <2>1, <2>2 DEF IncAdd, SendAt
<1>3. CASE IncSet
  <2>1. Lead' = Lead
    BY <1>3 DEF IncSet, SendAt, Holding, Lead
  <2>2. readiness'
    BY <1>3 DEF IncSet, SendAt
  <2> QED
    BY <1>0, <1>3, <2>1, <2>2 DEF IncSet, SendAt
<1>4. CASE RegisterLoad
  <2>1. Lead' = Lead /\ Lead = 0
    BY <1>4, <1>0, <1>b DEF RegisterLoad, ReceiveAt, Holding, Lead, CountInv
  <2> QED
    BY <1>0, <1>4, <1>b, <2>1 DEF RegisterLoad, ReceiveAt
<1>5. CASE RegisterFill
  <2>1. Lead' = Lead /\ Lead = 0
    BY <1>5, <1>0, <1>b DEF RegisterFill, ReceiveAt, Holding, Lead, CountInv
  <2> QED
    BY <1>0, <1>5, <1>b, <2>1 DEF RegisterFill, ReceiveAt
<1>6. CASE Wake
  <2>1. Lead' = Lead
    BY <1>6, <1>b DEF Wake, ReceiveAt, Holding, Lead
  <2> QED
    BY <1>0, <1>6, <1>b, <2>1 DEF Wake, ReceiveAt
<1>7. CASE try_recv
  <2>1. CASE deque = <<>>
    <3>1. Lead' = Lead
      BY <1>7, <1>b, <2>1 DEF try_recv, ReceiveAt, Holding, Lead
    <3> QED
      BY <1>0, <1>7, <1>b, <2>1, <3>1 DEF try_recv, ReceiveAt
  <2>2. CASE deque # <<>>
    <3>1. Len(deque') = Len(deque) - 1
      BY <1>0, <1>7, <2>2, Moves DEF try_recv, CountInv, SpscTypeOK
    <3>2. Lead' = Lead
      BY <1>7, <1>b, <2>2, <3>1 DEF try_recv, ReceiveAt, Holding, Lead
    <3> QED
      BY <1>0, <1>7, <1>b, <2>2, <3>2 DEF try_recv, ReceiveAt
  <2> QED
    BY <2>1, <2>2
<1>8. CASE DecLoad
  <2>1. Lead' = Lead
    BY <1>8, <1>b DEF DecLoad, ReceiveAt, Holding, Lead
  <2> QED
    BY <1>0, <1>8, <1>a, <1>b, <2>1 DEF DecLoad, ReceiveAt
<1>9. CASE DecUnset
  <2>1. Lead' = Lead
    BY <1>9, <1>b DEF DecUnset, ReceiveAt, Holding, Lead
  <2> QED
    BY <1>0, <1>9, <1>b, <2>1 DEF DecUnset, ReceiveAt
<1>10. CASE DecSub
  <2>1. Lead' = Lead - 1
    BY <1>10, <1>b DEF DecSub, ReceiveAt, Holding, Lead
  <2> QED
    BY <1>0, <1>10, <1>a, <1>b, <2>1 DEF DecSub, ReceiveAt
<1>11. CASE DecReset
  <2>1. Lead' = Lead
    BY <1>11, <1>b DEF DecReset, ReceiveAt, Holding, Lead
  <2> QED
    BY <1>0, <1>11, <1>b, <2>1 DEF DecReset, ReceiveAt
<1>12. CASE UNCHANGED vars
  BY <1>0, <1>12 DEF vars, Lead, Holding
<1> QED
  BY <1>1, <1>2, <1>3, <1>4, <1>5, <1>6, <1>7, <1>8, <1>9, <1>10, <1>11, <1>12
     DEF SpscNext, inc, Receive, register, dec

\* A receiver that waits with messages in its queue is woken, when the sender
\* waits for the registration: no wakeup is lost between inc and dec.
THEOREM NoLostWakeup ==
  ASSUME SpscConstants, ~EarlySends
  PROVE  SpscSpec => []WaitingIsWoken
<1>1. ASSUME WakeInv PROVE WaitingIsWoken
  <2> SUFFICES ASSUME ReceiveAt("wait"), deque # <<>>, sender # "add"
               PROVE  readiness \/ sender = "set"
    BY DEF WaitingIsWoken
  <2>1. Len(deque) >= 1 /\ Len(deque) \in Nat
    BY <1>1, Moves DEF WakeInv, CountInv, SpscTypeOK
  <2>2. Lead >= 1
    BY <2>1 DEF Lead, Holding, ReceiveAt
  <2> QED
    BY <1>1, <2>2 DEF WakeInv, ReceiveAt
<1> QED
  BY <1>1, WakeInit, WakeStep, PTL DEF SpscSpec

=============================================================================
