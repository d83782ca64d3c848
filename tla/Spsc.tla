-------------------------------- MODULE Spsc --------------------------------
(***************************************************************************)
(* The queue between two threads of the server (spsc.rs): a deque, a count *)
(* `pending`, and the readiness the receiver's poll waits for.  The three  *)
(* are changed one after the other by both threads, so every access is a   *)
(* step here.  The receiver is the worker: it waits in a level-triggered   *)
(* poll, and takes messages until the deque is empty.                      *)
(*                                                                         *)
(* The channel is made before the receiver registers it with its poll, and *)
(* the sender may send in between (EarlySends).                            *)
(***************************************************************************)
EXTENDS Integers, Sequences

CONSTANTS
  Messages,    \* bound: the number of messages sent
  EarlySends,  \* the sender does not wait for the registration
  Usize        \* the number of values of a usize

VARIABLES
  deque, pending,
  registered,   \* set_readiness is filled
  readiness,    \* the readiness of the registration
  sender,       \* where the sender is
  receiver,     \* where the receiver is, and the `first` of dec
  sent, received

vars == <<deque, pending, registered, readiness, sender, receiver, sent, received>>

SpscInit ==
  /\ deque = <<>> /\ pending = 0 /\ readiness = FALSE /\ registered = FALSE
  /\ sender = "idle" /\ receiver = [at |-> "register", first |-> 0]
  /\ sent = 0 /\ received = <<>>

SendAt(p)    == sender = p
ReceiveAt(p) == receiver.at = p

(***************************************************************************)
(* Sender::send and Ctl::inc.                                              *)
(***************************************************************************)
push ==
  /\ SendAt("idle") /\ sent < Messages /\ (EarlySends \/ registered)
  /\ sent' = sent + 1 /\ deque' = Append(deque, sent + 1)
  /\ sender' = "add"
  /\ UNCHANGED <<pending, registered, readiness, receiver, received>>

IncAdd ==
  /\ SendAt("add")
  /\ pending' = (pending + 1) % Usize
  /\ sender' = IF pending = 0 THEN "set" ELSE "idle"
  /\ UNCHANGED <<deque, registered, readiness, receiver, sent, received>>

IncSet ==
  /\ SendAt("set")
  /\ readiness' = (readiness \/ registered)
  /\ sender' = "idle"
  /\ UNCHANGED <<deque, pending, registered, receiver, sent, received>>

(***************************************************************************)
(* Receiver::register: it looks at the count, and then publishes the       *)
(* readiness.                                                              *)
(***************************************************************************)
RegisterLoad ==
  /\ ReceiveAt("register")
  /\ readiness' = (pending > 0)
  /\ receiver' = [receiver EXCEPT !.at = "fill"]
  /\ UNCHANGED <<deque, pending, registered, sender, sent, received>>

RegisterFill ==
  /\ ReceiveAt("fill")
  /\ registered' = TRUE
  /\ receiver' = [receiver EXCEPT !.at = "wait"]
  /\ UNCHANGED <<deque, pending, readiness, sender, sent, received>>

\* The poll of the worker returns when the queue is readable.
Wake ==
  /\ ReceiveAt("wait") /\ readiness
  /\ receiver' = [receiver EXCEPT !.at = "steal"]
  /\ UNCHANGED <<deque, pending, registered, readiness, sender, sent, received>>

(***************************************************************************)
(* Receiver::try_recv, once for every message; Ctl::dec.                   *)
(***************************************************************************)
try_recv ==
  /\ ReceiveAt("steal")
  /\ IF deque = <<>>
     THEN receiver' = [receiver EXCEPT !.at = "wait"] /\ UNCHANGED <<deque, received>>
     ELSE /\ received' = Append(received, Head(deque)) /\ deque' = Tail(deque)
          /\ receiver' = [receiver EXCEPT !.at = "load"]
  /\ UNCHANGED <<pending, registered, readiness, sender, sent>>

DecLoad ==
  /\ ReceiveAt("load")
  /\ receiver' = [receiver EXCEPT !.at = IF pending = 1 THEN "unset" ELSE "sub", !.first = pending]
  /\ UNCHANGED <<deque, pending, registered, readiness, sender, sent, received>>

DecUnset ==
  /\ ReceiveAt("unset")
  /\ readiness' = FALSE
  /\ receiver' = [receiver EXCEPT !.at = "sub"]
  /\ UNCHANGED <<deque, pending, registered, sender, sent, received>>

DecSub ==
  /\ ReceiveAt("sub")
  /\ pending' = (pending - 1) % Usize
  /\ receiver' = [receiver EXCEPT !.at = IF receiver.first = 1 /\ pending > 1 THEN "reset" ELSE "steal"]
  /\ UNCHANGED <<deque, registered, readiness, sender, sent, received>>

DecReset ==
  /\ ReceiveAt("reset")
  /\ readiness' = TRUE
  /\ receiver' = [receiver EXCEPT !.at = "steal"]
  /\ UNCHANGED <<deque, pending, registered, sender, sent, received>>

inc      == IncAdd \/ IncSet
register == RegisterLoad \/ RegisterFill
dec      == DecLoad \/ DecUnset \/ DecSub \/ DecReset
Receive  == register \/ Wake \/ try_recv \/ dec

SpscNext == push \/ inc \/ Receive

SpscSpec == SpscInit /\ [][SpscNext]_vars /\ WF_vars(push) /\ WF_vars(inc) /\ WF_vars(Receive)

(***************************************************************************)
(* Properties.                                                             *)
(***************************************************************************)
\* A receiver that waits with messages in the deque will be woken: the queue
\* is readable, or the sender is about to make it so.  inc sets the readiness
\* only for the first message, dec unsets it before it takes a message off the
\* count, and a message may be taken before it is counted at all.
WaitingIsWoken ==
  ReceiveAt("wait") /\ deque # <<>> => readiness \/ sender \in {"add", "set"}

\* When both threads rest the count is the number of messages, although it
\* wraps below 0 while the receiver is ahead of inc.
CountIsExact == SendAt("idle") /\ receiver.at \in {"wait", "steal"} => pending = Len(deque)

\* Every message is received, in the order of the sends.
AllReceivedInOrder == <>[](received = [i \in 1..Messages |-> i])
=============================================================================
