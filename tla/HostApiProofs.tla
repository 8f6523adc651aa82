---------------------------- MODULE HostApiProofs ----------------------------
(***************************************************************************)
(* The host library for any number of calls, of debug messages and of      *)
(* resets: the responses are a map, and the library implements Rpc as long *)
(* as no id is taken while a packet with that id is still about.  Fewer    *)
(* calls than ids are enough for that.                                     *)
(***************************************************************************)
EXTENDS HostApi, SequenceTheorems, FiniteSetTheorems, TLAPS

-----------------------------------------------------------------------------
(* Queues: what Append and Tail make of the elements of a sequence *)

\* The elements of a queue are those it had and the one appended.
LEMMA Appended ==
  ASSUME NEW S, NEW q \in Seq(S), NEW x \in S
  PROVE  /\ Append(q, x) \in Seq(S) /\ Len(Append(q, x)) = Len(q) + 1
         /\ Len(q) \in Nat /\ DOMAIN q = 1 .. Len(q)
         /\ DOMAIN Append(q, x) = 1 .. Len(q) + 1
         /\ \A i \in DOMAIN Append(q, x) :
              \/ i \in DOMAIN q /\ Append(q, x)[i] = q[i]
              \/ i = Len(q) + 1 /\ i \notin DOMAIN q /\ Append(q, x)[i] = x
<1>1. Len(q) \in Nat /\ DOMAIN q = 1 .. Len(q)
  BY LenProperties
<1>2. /\ Append(q, x) \in Seq(S) /\ Len(Append(q, x)) = Len(q) + 1
      /\ \A i \in 1 .. Len(q) : Append(q, x)[i] = q[i]
      /\ Append(q, x)[Len(q) + 1] = x
  BY AppendProperties
<1>3. DOMAIN Append(q, x) = 1 .. Len(q) + 1
  BY <1>2, LenProperties
<1>4. \A i \in 1 .. Len(q) + 1 : i \in 1 .. Len(q) \/ (i = Len(q) + 1 /\ i \notin 1 .. Len(q))
  BY <1>1
<1>5. QED  BY <1>1, <1>2, <1>3, <1>4

\* Without its head a queue has its other elements, one place further on.
LEMMA Removed ==
  ASSUME NEW S, NEW q \in Seq(S), q # <<>>
  PROVE  /\ Head(q) = q[1] /\ Head(q) \in S /\ 1 \in DOMAIN q
         /\ Tail(q) \in Seq(S) /\ Len(Tail(q)) = Len(q) - 1
         /\ Len(q) \in Nat \ {0} /\ DOMAIN q = 1 .. Len(q)
         /\ DOMAIN Tail(q) = 1 .. Len(q) - 1
         /\ \A i \in DOMAIN Tail(q) : /\ i \in Nat /\ i >= 1 /\ i + 1 # 1
                                      /\ i + 1 \in DOMAIN q /\ Tail(q)[i] = q[i + 1]
<1>1. Len(q) \in Nat \ {0} /\ DOMAIN q = 1 .. Len(q)
  BY EmptySeq, LenProperties
<1>2. Head(q) = q[1]
  OBVIOUS
<1>3. Head(q) \in S
  BY HeadTailProperties
<1>4. Tail(q) \in Seq(S) /\ Len(Tail(q)) = Len(q) - 1
  BY HeadTailProperties
<1>5. \A i \in 1 .. Len(Tail(q)) : Tail(q)[i] = q[i + 1]
  BY HeadTailProperties
<1>6. DOMAIN Tail(q) = 1 .. Len(q) - 1
  BY <1>4, LenProperties
<1>7. \A i \in 1 .. Len(q) - 1 : i \in Nat /\ i >= 1 /\ i + 1 # 1 /\ i + 1 \in 1 .. Len(q)
  BY <1>1
<1>8. 1 \in 1 .. Len(q)
  BY <1>1
<1>9. QED  BY <1>1, <1>2, <1>3, <1>4, <1>5, <1>6, <1>7, <1>8

Open(c) == pc[c] \in {"write", "poll"}

\* Where an answer can be between the device and its call.
About(p) ==
  /\ p.kind # "debug"
  /\ \/ p \in responses
     \/ \E i \in DOMAIN rxBuf : rxBuf[i] = p
     \/ \E i \in DOMAIN down : down[i] = p

Command == [id : Ids, call : Calls \cup {"reset"}]

\* A command of a call on its way to the device.
Sent(m) == m.call # "reset" /\ \E i \in DOMAIN up : up[i] = m

\* Only the call c, if any, has the id i and is in progress.
IdOf(i, c) == \A d \in Calls : Open(d) /\ id[d] = i => d = c

\* An answer is what the device answered, and it answers the call with its id.
AnswerInv ==
  \A p \in Packet : About(p) =>
    p.call \in Calls /\ p.kind = outcome[p.call] /\ IdOf(p.id, p.call)

\* A command on its way has not been executed, and there is one for a call.
CommandInv ==
  /\ \A m \in Command : Sent(m) =>
       /\ m.call \in Calls /\ IdOf(m.id, m.call)
       /\ outcome[m.call] = "none" /\ pc[m.call] \notin {"new", "write"}
  /\ \A i, j \in DOMAIN up : i # j /\ up[i].call # "reset" => up[i].call # up[j].call
  /\ \A c \in Calls : pc[c] \in {"new", "write"} => outcome[c] = "none"

\* Calls in progress have different ids.
OpenInv == \A c \in Calls : Open(c) => IdOf(id[c], c)

RouteInv == AnswerInv /\ CommandInv /\ OpenInv /\ OwnAnswer

\* No packet of a call is about that has the id i.
Unused(i) ==
  /\ \A p \in Packet : About(p) => p.id # i
  /\ \A m \in Command : Sent(m) => m.id # i

\* No call takes an id while a packet with that id is still about.
Reuses == \E c \in Calls : TakeId(c) /\ ~Unused(nextId)
NoReuse == [][~Reuses]_vars
-----------------------------------------------------------------------------
(* Ids that have been taken *)

Started == {c \in Calls : pc[c] # "new"}

\* How often next_id has been incremented, and the k-th id it gave.
Taken == Cardinality(Started) + resets
Nth(k) == IF k + 1 = IdSpace THEN 0 ELSE k + 1

\* Every packet of a call carries the call's id.
IdInv ==
  /\ \A p \in Packet : About(p) => p.call \in Started /\ p.id = id[p.call]
  /\ \A m \in Command : Sent(m) => m.call \in Started /\ m.id = id[m.call]

\* Until next_id comes round, it counts.
CountInv ==
  /\ Taken < IdSpace => nextId = Nth(Taken)
  /\ \A c \in Started : \E k \in 0 .. Taken - 1 : id[c] = Nth(k)

\* The ids suffice for every call there is.
NoWrap == Cardinality(Calls) + MaxResets <= IdSpace
-----------------------------------------------------------------------------
(* The map of responses *)

LEMMA InitMap == Init => ResponsesAreAMap
<1> SUFFICES ASSUME Init PROVE ResponsesAreAMap
  OBVIOUS
<1>1. 1 % IdSpace \in Ids /\ 0 \in Ids
  BY HostAssumption DEF Ids
<1>2. \A S : <<>> \in Seq(S)
  BY EmptySeq
<1>3. 0 \in 0 .. MaxDebug /\ 0 \in 0 .. MaxResets
  BY HostAssumption
<1>4. TypeOK
  BY <1>1, <1>2, <1>3 DEF Init, TypeOK
<1>5. QED  BY <1>4 DEF Init, ResponsesAreAMap

LEMMA TypeStep ==
  ASSUME ResponsesAreAMap, [Next]_vars
  PROVE  TypeOK'
<1>0. TypeOK /\ \A r \in responses : r.kind \in {"ack", "nack"}
  BY DEF ResponsesAreAMap, TypeOK, Packet
<1>1. (nextId + 1) % IdSpace \in Ids
  BY <1>0, HostAssumption DEF Ids, TypeOK
<1>2. ASSUME NEW c \in Calls, Transact(c) PROVE TypeOK'
  <2>1. CASE TakeId(c)
    BY <1>0, <1>1, <2>1 DEF TakeId, TypeOK, api, read, link
  <2>2. CASE Write(c)
    <3>1. [id |-> id[c], call |-> c] \in [id : Ids, call : Calls \cup {"reset"}]
      BY <1>0 DEF TypeOK
    <3>2. up' \in Seq([id : Ids, call : Calls \cup {"reset"}])
      BY <1>0, <2>2, <3>1, Appended DEF Write, TypeOK
    <3>3. QED  BY <1>0, <2>2, <3>2 DEF Write, TypeOK, api, read
  <2>3. CASE WriteFails(c) \/ Expire(c)
    BY <1>0, <2>3 DEF WriteFails, Expire, TypeOK, api, read, link
  <2>4. CASE Find(c)
    BY <1>0, <2>4 DEF Find, TypeOK, api, link
  <2>5. QED  BY <1>2, <2>1, <2>2, <2>3, <2>4 DEF Transact
<1>3. CASE SendReset
  <2>1. [id |-> nextId, call |-> "reset"] \in [id : Ids, call : Calls \cup {"reset"}]
    BY <1>0 DEF TypeOK
  <2>2. up' \in Seq([id : Ids, call : Calls \cup {"reset"}])
    <3>1. Append(up, [id |-> nextId, call |-> "reset"])
            \in Seq([id : Ids, call : Calls \cup {"reset"}])
      BY <1>0, <2>1, Appended DEF TypeOK
    <3>2. QED  BY <1>0, <1>3, <3>1 DEF SendReset, TypeOK
  <2>3. resets' \in 0 .. MaxResets
    BY <1>0, <1>3, HostAssumption DEF SendReset, TypeOK
  <2>4. QED  BY <1>0, <1>1, <1>3, <2>2, <2>3 DEF SendReset, TypeOK, api, read
<1>4. CASE Reader
  <2>1. CASE Read
    <3>1. <<>> \in Seq(Packet)
      BY EmptySeq
    <3>2. QED  BY <1>0, <2>1, <3>1 DEF Read, TypeOK, caller, api
  <2>2. CASE Parse
    <3>1. Head(rxBuf) \in Packet /\ Tail(rxBuf) \in Seq(Packet)
      BY <1>0, <2>2, Removed DEF Parse, TypeOK
    <3>2. QED  BY <1>0, <2>2, <3>1 DEF Parse, TypeOK, caller, api, link
  <2>3. CASE ParseDone
    BY <1>0, <2>3 DEF ParseDone, TypeOK, caller, api, link
  <2>4. QED  BY <1>4, <2>1, <2>2, <2>3 DEF Reader
<1>5. CASE Closing
  BY <1>0, <1>5 DEF Closing, Close, CloseDrop, CloseClear, TypeOK, caller, read, link
<1>6. CASE Device
  <2>1. CASE Execute
    <3>1. /\ Head(up) \in [id : Ids, call : Calls \cup {"reset"}] /\ Head(up).call \in Calls
          /\ Tail(up) \in Seq([id : Ids, call : Calls \cup {"reset"}])
      <4>1. up # <<>> /\ Head(up).call # "reset"
        BY <2>1 DEF Execute
      <4>2. Head(up) \in [id : Ids, call : Calls \cup {"reset"}]
        BY <1>0, <4>1, Removed DEF TypeOK
      <4>3. Tail(up) \in Seq([id : Ids, call : Calls \cup {"reset"}])
        BY <1>0, <4>1, Removed DEF TypeOK
      <4>4. QED  BY <4>1, <4>2, <4>3
    <3>2. PICK o \in {"ack", "nack"} :
            /\ outcome' = [outcome EXCEPT ![Head(up).call] = o]
            /\ down' = Append(down, Reply(Head(up), o))
      BY <2>1 DEF Execute
    <3>3. Reply(Head(up), o) \in Packet
      BY <3>1 DEF Reply, Packet
    <3>4. down' \in Seq(Packet)
      BY <1>0, <3>2, <3>3, Appended DEF TypeOK
    <3>5. outcome' \in [Calls -> {"none", "ack", "nack"}]
      BY <1>0, <3>1, <3>2 DEF TypeOK
    <3>6. QED  BY <1>0, <2>1, <3>1, <3>4, <3>5 DEF Execute, TypeOK, caller, api, read
  <2>2. CASE ExecuteReset \/ LoseCommand
    <3>1. up # <<>> /\ up' = Tail(up) /\ down' \in {down, <<>>}
      BY <2>2 DEF ExecuteReset, LoseCommand
    <3>2. up' \in Seq([id : Ids, call : Calls \cup {"reset"}]) /\ down' \in Seq(Packet)
      BY <1>0, <3>1, Removed, EmptySeq DEF TypeOK
    <3>3. QED  BY <1>0, <2>2, <3>2 DEF ExecuteReset, LoseCommand, TypeOK, caller, api, read
  <2>3. CASE Debug
    <3>1. [id |-> 0, kind |-> "debug", call |-> "none"] \in Packet
      BY HostAssumption DEF Packet, Ids
    <3>2. down' \in Seq(Packet)
      BY <1>0, <2>3, <3>1, Appended DEF Debug, TypeOK
    <3>3. debugs' \in 0 .. MaxDebug
      BY <1>0, <2>3, HostAssumption DEF Debug, TypeOK
    <3>4. QED  BY <1>0, <2>3, <3>2, <3>3 DEF Debug, TypeOK, caller, api, read
  <2>4. CASE LoseReply
    <3>1. down' \in Seq(Packet)
      BY <1>0, <2>4, Removed DEF LoseReply, TypeOK
    <3>2. QED  BY <1>0, <2>4, <3>1 DEF LoseReply, TypeOK, caller, api, read
  <2>5. QED  BY <1>6, <2>1, <2>2, <2>3, <2>4 DEF Device
<1>7. CASE UNCHANGED vars
  BY <1>0, <1>7 DEF vars, TypeOK
<1>8. QED
  BY <1>2, <1>3, <1>4, <1>5, <1>6, <1>7 DEF Next

LEMMA MapStep == ResponsesAreAMap /\ [Next]_vars => ResponsesAreAMap'
<1> SUFFICES ASSUME ResponsesAreAMap, [Next]_vars PROVE ResponsesAreAMap'
  OBVIOUS
<1>1. TypeOK'
  BY TypeStep
<1>2. CASE responses' \subseteq responses
  BY <1>1, <1>2 DEF ResponsesAreAMap
<1>3. CASE Parse
  <2>1. \/ responses' = responses
        \/ /\ Head(rxBuf).kind # "debug"
           /\ responses' = {r \in responses : r.id # Head(rxBuf).id} \cup {Head(rxBuf)}
    BY <1>3 DEF Parse
  <2>2. QED  BY <1>1, <2>1 DEF ResponsesAreAMap
<1>4. responses' \subseteq responses \/ Parse
  <2>1. CASE \E c \in Calls : Transact(c)
    BY <2>1 DEF Transact, TakeId, Write, WriteFails, Find, Expire, read
  <2>2. CASE Read \/ ParseDone \/ Closing \/ SendReset \/ UNCHANGED vars
    BY <2>2 DEF Read, ParseDone, Closing, Close, CloseDrop, CloseClear, SendReset, read, vars
  <2>3. CASE Device
    BY <2>3 DEF Device, Execute, ExecuteReset, Debug, LoseCommand, LoseReply, read
  <2>4. QED  BY <2>1, <2>2, <2>3 DEF Next, Reader
<1>5. QED  BY <1>2, <1>3, <1>4

\* The map has one answer for an id at most, whatever is lost, repeated or late.
THEOREM MapCorrect == Spec => []ResponsesAreAMap
BY InitMap, MapStep, PTL DEF Spec
-----------------------------------------------------------------------------
(* Packets on their way *)

\* The answer to the command that the device executes.
Answered(p) ==
  Execute /\ p.id = Head(up).id /\ p.call = Head(up).call /\ p.kind = outcome'[p.call]

LEMMA AboutStep ==
  ASSUME TypeOK, [Next]_vars, NEW p \in Packet, About(p)'
  PROVE  About(p) \/ Answered(p)
<1>1. CASE UNCHANGED <<responses, rxBuf, down>>
  BY <1>1 DEF About
<1>2. CASE \E c \in Calls : Find(c)
  BY <1>2 DEF Find, link, About
<1>3. CASE Read
  <2>1. CASE rxBuf' = down /\ down' = <<>> /\ responses' = responses
    <3>1. DOMAIN down' = {}
      BY <2>1
    <3>2. QED  BY <2>1, <3>1 DEF About
  <2>2. CASE UNCHANGED <<responses, rxBuf, down>>
    BY <1>1, <2>2
  <2>3. QED  BY <1>3, <2>1, <2>2 DEF Read
<1>4. CASE Parse
  <2>1. /\ Head(rxBuf) = rxBuf[1] /\ 1 \in DOMAIN rxBuf /\ rxBuf' = Tail(rxBuf)
        /\ \A i \in DOMAIN Tail(rxBuf) : i + 1 \in DOMAIN rxBuf /\ Tail(rxBuf)[i] = rxBuf[i + 1]
    BY <1>4, Removed DEF Parse, TypeOK
  <2>2. p \in responses' => p \in responses \/ p = rxBuf[1]
    BY <1>4, <2>1 DEF Parse
  <2>3. down' = down
    BY <1>4 DEF Parse, link
  <2>4. QED  BY <2>1, <2>2, <2>3 DEF About
<1>5. CASE CloseClear
  BY <1>5 DEF CloseClear, link, About
<1>6. ASSUME NEW q \in Packet, down' = Append(down, q), UNCHANGED <<responses, rxBuf>>
      PROVE  About(p) \/ p = q
  <2>1. \A i \in DOMAIN down' : (i \in DOMAIN down /\ down'[i] = down[i]) \/ down'[i] = q
    BY <1>6, Appended DEF TypeOK
  <2>2. QED  BY <1>6, <2>1 DEF About
<1>7. CASE Execute
  <2>1. PICK o \in {"ack", "nack"} :
          /\ outcome' = [outcome EXCEPT ![Head(up).call] = o]
          /\ down' = Append(down, Reply(Head(up), o))
    BY <1>7 DEF Execute
  <2>2. up # <<>> /\ Head(up).call # "reset"
    BY <1>7 DEF Execute
  <2>3. Head(up) \in [id : Ids, call : Calls \cup {"reset"}]
    BY <2>2, Removed DEF TypeOK
  <2>4. Head(up).call \in Calls /\ Head(up).id \in Ids
    BY <2>2, <2>3
  <2>5. Reply(Head(up), o) \in Packet
    BY <2>4 DEF Reply, Packet
  <2>6. About(p) \/ p = Reply(Head(up), o)
    BY <1>6, <1>7, <2>1, <2>5 DEF Execute, read
  <2>7. outcome'[Head(up).call] = o
    BY <2>1, <2>4 DEF TypeOK
  <2>8. QED  BY <1>7, <2>6, <2>7 DEF Answered, Reply
<1>8. CASE Debug
  <2>1. [id |-> 0, kind |-> "debug", call |-> "none"] \in Packet
    BY HostAssumption DEF Packet, Ids
  <2>2. About(p) \/ p = [id |-> 0, kind |-> "debug", call |-> "none"]
    BY <1>6, <1>8, <2>1 DEF Debug, read
  <2>3. p.kind # "debug"
    BY DEF About
  <2>4. QED  BY <2>2, <2>3
<1>9. CASE LoseReply
  <2>1. /\ down' = Tail(down)
        /\ \A i \in DOMAIN Tail(down) : i + 1 \in DOMAIN down /\ Tail(down)[i] = down[i + 1]
    BY <1>9, Removed DEF LoseReply, TypeOK
  <2>2. QED  BY <1>9, <2>1 DEF LoseReply, About, read
<1>10. CASE ExecuteReset
  <2>1. DOMAIN down' = {} /\ UNCHANGED <<responses, rxBuf>>
    BY <1>10 DEF ExecuteReset, read
  <2>2. QED  BY <2>1 DEF About
<1>11. CASE SendReset \/ ParseDone \/ Close \/ CloseDrop \/ LoseCommand \/ UNCHANGED vars
  BY <1>1, <1>11 DEF SendReset, ParseDone, Close, CloseDrop, LoseCommand, vars, read, link
<1>12. ASSUME NEW c \in Calls, TakeId(c) \/ Write(c) \/ WriteFails(c) \/ Expire(c)
       PROVE  About(p)
  BY <1>1, <1>12 DEF TakeId, Write, WriteFails, Expire, read, link, About
<1>13. QED
  BY <1>2, <1>3, <1>4, <1>5, <1>7, <1>8, <1>9, <1>10, <1>11, <1>12
     DEF Next, Transact, Reader, Closing, Device

\* The command a call or reset writes.
Written(m) == \E c \in Calls : Write(c) /\ m = [id |-> id[c], call |-> c]

LEMMA SentStep ==
  ASSUME TypeOK, [Next]_vars, NEW m \in Command, Sent(m)'
  PROVE  \/ Written(m)
         \/ Sent(m) /\ (Execute => \E i \in DOMAIN up : i # 1 /\ up[i] = m)
<1>0. up \in Seq(Command) /\ m.call # "reset"
  BY DEF TypeOK, Command, Sent
<1>1. ASSUME up' = up PROVE Sent(m)
  BY <1>1 DEF Sent
<1>2. CASE up' = Tail(up) /\ up # <<>>
  <2>1. \A i \in DOMAIN Tail(up) :
          i + 1 # 1 /\ i + 1 \in DOMAIN up /\ Tail(up)[i] = up[i + 1]
    BY <1>0, <1>2, Removed
  <2>2. QED  BY <1>0, <1>2, <2>1 DEF Sent
<1>3. ASSUME NEW n \in Command, up' = Append(up, n)
      PROVE  Sent(m) \/ m = n
  <2>1. \A i \in DOMAIN up' : (i \in DOMAIN up /\ up'[i] = up[i]) \/ up'[i] = n
    BY <1>0, <1>3, Appended
  <2>2. QED  BY <1>0, <2>1 DEF Sent
<1>4. ASSUME NEW c \in Calls, Transact(c), ~Execute PROVE Sent(m) \/ Written(m)
  <2>1. CASE Write(c)
    <3>1. [id |-> id[c], call |-> c] \in Command
      BY <1>0, <2>1 DEF TypeOK, Command
    <3>2. Sent(m) \/ m = [id |-> id[c], call |-> c]
      BY <1>3, <2>1, <3>1 DEF Write
    <3>3. QED  BY <2>1, <3>2 DEF Written
  <2>2. CASE ~Write(c)
    BY <1>1, <1>4, <2>2 DEF Transact, TakeId, WriteFails, Find, Expire, link, Sent
  <2>3. QED  BY <2>1, <2>2
<1>5. ASSUME SendReset, ~Execute PROVE Sent(m)
  <2>1. [id |-> nextId, call |-> "reset"] \in Command
    BY DEF TypeOK, Command
  <2>2. up' = up \/ up' = Append(up, [id |-> nextId, call |-> "reset"])
    BY <1>5 DEF SendReset
  <2>3. Sent(m) \/ m = [id |-> nextId, call |-> "reset"]
    <3>1. CASE up' = up
      BY <1>1, <3>1
    <3>2. CASE up' # up
      BY <1>3, <2>1, <2>2, <3>2
    <3>3. QED  BY <3>1, <3>2
  <2>4. QED  BY <1>0, <2>3
<1>6. CASE Execute \/ ExecuteReset \/ LoseCommand
  BY <1>2, <1>6 DEF Execute, ExecuteReset, LoseCommand
<1>7. ASSUME Read \/ Parse \/ ParseDone \/ Closing \/ Debug \/ LoseReply \/ UNCHANGED vars,
             ~Execute
      PROVE  Sent(m)
  <2>1. up' = up
    BY <1>7 DEF Read, Parse, ParseDone, Closing, Close, CloseDrop, CloseClear, Debug,
                LoseReply, vars, link
  <2>2. QED  BY <1>1, <2>1
<1>8. QED
  BY <1>4, <1>5, <1>6, <1>7 DEF Next, Reader, Device

\* Commands for the same call do not get into each other's way.
Single == \A i, j \in DOMAIN up : i # j /\ up[i].call # "reset" => up[i].call # up[j].call

LEMMA SingleStep ==
  ASSUME TypeOK, CommandInv, [Next]_vars
  PROVE  Single'
<1>0. up \in Seq(Command) /\ Single
  BY DEF TypeOK, Command, CommandInv, Single
<1>1. CASE up' = up
  BY <1>0, <1>1 DEF Single
<1>2. CASE up' = Tail(up) /\ up # <<>>
  <2>1. \A i \in DOMAIN Tail(up) :
          i \in Nat /\ i + 1 \in DOMAIN up /\ Tail(up)[i] = up[i + 1]
    BY <1>0, <1>2, Removed
  <2>2. ASSUME NEW i \in DOMAIN up', NEW j \in DOMAIN up', i # j, up'[i].call # "reset"
        PROVE  up'[i].call # up'[j].call
    <3>1. i + 1 # j + 1
      BY <1>2, <2>1, <2>2
    <3>2. QED  BY <1>0, <1>2, <2>1, <2>2, <3>1 DEF Single
  <2>3. QED  BY <2>2 DEF Single
<1>3. ASSUME NEW n \in Command, up' = Append(up, n),
             n.call # "reset" => \A i \in DOMAIN up : up[i].call # n.call
      PROVE  Single'
  <2>1. \A i \in DOMAIN up' : \/ i \in DOMAIN up /\ up'[i] = up[i]
                              \/ i = Len(up) + 1 /\ up'[i] = n
    BY <1>0, <1>3, Appended
  <2>2. QED  BY <1>0, <1>3, <2>1 DEF Single
<1>4. ASSUME NEW c \in Calls, Write(c) PROVE Single'
  <2>1. [id |-> id[c], call |-> c] \in Command
    BY DEF TypeOK, Command
  <2>2. ASSUME c # "reset", NEW i \in DOMAIN up PROVE up[i].call # c
    <3>1. up[i] \in Command
      BY <1>0, ElementOfSeq, LenProperties
    <3>2. CASE up[i].call = c
      BY <1>4, <2>2, <3>1, <3>2 DEF CommandInv, Sent, Write
    <3>3. QED  BY <3>2
  <2>3. QED  BY <1>3, <1>4, <2>1, <2>2 DEF Write
<1>5. CASE SendReset
  <2>1. [id |-> nextId, call |-> "reset"] \in Command
    BY DEF TypeOK, Command
  <2>2. up' = up \/ up' = Append(up, [id |-> nextId, call |-> "reset"])
    BY <1>5 DEF SendReset
  <2>3. QED  BY <1>1, <1>3, <2>1, <2>2
<1>6. CASE Execute \/ ExecuteReset \/ LoseCommand
  BY <1>2, <1>6 DEF Execute, ExecuteReset, LoseCommand
<1>7. CASE Read \/ Parse \/ ParseDone \/ Closing \/ Debug \/ LoseReply \/ UNCHANGED vars
  BY <1>1, <1>7 DEF Read, Parse, ParseDone, Closing, Close, CloseDrop, CloseClear, Debug,
                    LoseReply, vars, link
<1>8. ASSUME NEW c \in Calls, TakeId(c) \/ WriteFails(c) \/ Find(c) \/ Expire(c)
      PROVE  Single'
  BY <1>1, <1>8 DEF TakeId, WriteFails, Find, Expire, link
<1>9. QED
  BY <1>4, <1>5, <1>6, <1>7, <1>8 DEF Next, Transact, Reader, Device
-----------------------------------------------------------------------------
(* Which call an answer goes to *)

\* How the calls change.
LEMMA CallStep ==
  ASSUME TypeOK, [Next]_vars, NEW c \in Calls
  PROVE  /\ pc'[c] \in {"new", "write"} => pc[c] \in {"new", "write"}
         /\ Open(c)' => \/ Open(c) /\ id'[c] = id[c]
                        \/ TakeId(c) /\ id'[c] = nextId
         /\ pc'[c] \in {"ack", "nack"} => pc'[c] = pc[c] \/ Find(c)
<1>1. CASE UNCHANGED <<pc, id>>
  BY <1>1 DEF Open
<1>2. ASSUME NEW d \in Calls, Transact(d)
      PROVE  /\ pc'[c] \in {"new", "write"} => pc[c] \in {"new", "write"}
             /\ Open(c)' => \/ Open(c) /\ id'[c] = id[c]
                            \/ TakeId(c) /\ id'[c] = nextId
             /\ pc'[c] \in {"ack", "nack"} => pc'[c] = pc[c] \/ Find(c)
  <2>1. CASE TakeId(d)
    <3>1. /\ pc[d] = "new" /\ pc' = [pc EXCEPT ![d] = "write"]
          /\ id' = [id EXCEPT ![d] = nextId]
      BY <2>1 DEF TakeId
    <3>2. CASE c = d
      BY <2>1, <3>1, <3>2 DEF Open, TypeOK
    <3>3. CASE c # d
      BY <3>1, <3>3 DEF Open, TypeOK
    <3>4. QED  BY <3>2, <3>3
  <2>2. CASE Write(d)
    BY <2>2 DEF Write, Open, TypeOK
  <2>3. CASE WriteFails(d) \/ Expire(d)
    BY <2>3 DEF WriteFails, Expire, caller, Open, TypeOK
  <2>4. CASE Find(d)
    <3>1. /\ pc[d] = "poll" /\ id' = id
          /\ \E r \in responses : pc' = [pc EXCEPT ![d] = r.kind]
      BY <2>4 DEF Find
    <3>2. CASE c = d
      <4>1. \A r \in responses : r.kind \in {"ack", "nack", "debug"}
        BY DEF TypeOK, Packet
      <4>2. QED  BY <2>4, <3>1, <3>2, <4>1 DEF Open, TypeOK
    <3>3. CASE c # d
      BY <3>1, <3>3 DEF Open, TypeOK
    <3>4. QED  BY <3>2, <3>3
  <2>5. QED  BY <1>2, <2>1, <2>2, <2>3, <2>4 DEF Transact
<1>3. CASE SendReset \/ Reader \/ Closing \/ Device \/ UNCHANGED vars
  BY <1>1, <1>3 DEF SendReset, Reader, Read, Parse, ParseDone, Closing, Close, CloseDrop,
                    CloseClear, Device, Execute, ExecuteReset, Debug, LoseCommand,
                    LoseReply, caller, vars
<1>4. QED  BY <1>2, <1>3 DEF Next

\* The device's answer to a call changes once, when its command is executed.
LEMMA OutcomeStep ==
  ASSUME TypeOK, CommandInv, [Next]_vars, NEW c \in Calls
  PROVE  \/ outcome'[c] = outcome[c]
         \/ /\ Execute /\ outcome[c] = "none" /\ pc[c] \notin {"new", "write"}
            /\ 1 \in DOMAIN up /\ up[1].call = c /\ c # "reset"
<1>1. CASE outcome' = outcome
  BY <1>1
<1>2. CASE Execute
  <2>1. /\ up # <<>> /\ Head(up).call # "reset"
        /\ \E o \in {"ack", "nack"} : outcome' = [outcome EXCEPT ![Head(up).call] = o]
    BY <1>2 DEF Execute
  <2>2. up \in Seq(Command)
    BY DEF TypeOK, Command
  <2>3. Head(up) = up[1] /\ 1 \in DOMAIN up /\ Head(up) \in Command
    BY <2>1, <2>2, Removed
  <2>4. Sent(up[1])
    BY <2>1, <2>3 DEF Sent
  <2>5. outcome[up[1].call] = "none" /\ pc[up[1].call] \notin {"new", "write"}
    BY <2>3, <2>4 DEF CommandInv
  <2>6. CASE c = up[1].call
    BY <1>2, <2>1, <2>3, <2>5, <2>6
  <2>7. CASE c # up[1].call
    BY <2>1, <2>3, <2>7 DEF TypeOK
  <2>8. QED  BY <2>6, <2>7
<1>3. ASSUME NEW d \in Calls, Transact(d) PROVE outcome' = outcome
  BY <1>3 DEF Transact, TakeId, Write, WriteFails, Find, Expire, link
<1>4. CASE SendReset \/ Reader \/ Closing \/ (Device /\ ~Execute) \/ UNCHANGED vars
  BY <1>1, <1>4 DEF SendReset, Reader, Read, Parse, ParseDone, Closing, Close, CloseDrop,
                    CloseClear, Device, ExecuteReset, Debug, LoseCommand,
                    LoseReply, link, vars
<1>5. QED  BY <1>1, <1>2, <1>3, <1>4 DEF Next

\* An id that is not taken anew stays that of its call.
LEMMA IdOfStep ==
  ASSUME TypeOK, [Next]_vars, NEW i \in Ids, NEW c, IdOf(i, c),
         \A d \in Calls : TakeId(d) => i # nextId
  PROVE  IdOf(i, c)'
BY CallStep DEF IdOf

LEMMA InitRoute == Init => RouteInv
<1> SUFFICES ASSUME Init PROVE RouteInv
  OBVIOUS
<1>1. DOMAIN up = {} /\ DOMAIN down = {} /\ DOMAIN rxBuf = {} /\ responses = {}
  BY DEF Init
<1>2. \A c \in Calls : pc[c] = "new" /\ outcome[c] = "none"
  BY DEF Init
<1>3. QED
  BY <1>1, <1>2 DEF RouteInv, AnswerInv, CommandInv, OpenInv, OwnAnswer, About, Sent, Open

LEMMA RouteStep ==
  ASSUME TypeOK, TypeOK', RouteInv, [Next]_vars, ~Reuses
  PROVE  RouteInv'
<1>0. AnswerInv /\ CommandInv /\ OpenInv /\ OwnAnswer
  BY DEF RouteInv
<1>1. AnswerInv'
  <2>1. ASSUME NEW p \in Packet, About(p)'
        PROVE  p.call \in Calls /\ p.kind = outcome'[p.call] /\ IdOf(p.id, p.call)'
    <3>1. p.id \in Ids /\ p.kind # "none"
      BY DEF Packet
    <3>2. CASE About(p)
      <4>1. p.call \in Calls /\ p.kind = outcome[p.call] /\ IdOf(p.id, p.call)
        BY <1>0, <3>2 DEF AnswerInv
      <4>2. \A d \in Calls : TakeId(d) => p.id # nextId
        BY <3>2 DEF Reuses, Unused
      <4>3. outcome'[p.call] = outcome[p.call]
        BY <1>0, <3>1, <4>1, OutcomeStep
      <4>4. QED  BY <3>1, <4>1, <4>2, <4>3, IdOfStep
    <3>3. CASE Answered(p)
      <4>1. /\ up # <<>> /\ Head(up).call # "reset" /\ p.kind = outcome'[p.call]
            /\ p.id = Head(up).id /\ p.call = Head(up).call
        BY <3>3 DEF Answered, Execute
      <4>2. up \in Seq(Command)
        BY DEF TypeOK, Command
      <4>3. Head(up) = up[1] /\ 1 \in DOMAIN up /\ Head(up) \in Command
        BY <4>1, <4>2, Removed
      <4>4. Sent(Head(up))
        BY <4>1, <4>3 DEF Sent
      <4>5. p.call \in Calls /\ IdOf(p.id, p.call)
        BY <1>0, <4>1, <4>3, <4>4 DEF CommandInv
      <4>6. \A d \in Calls : TakeId(d) => p.id # nextId
        BY <4>1, <4>3, <4>4 DEF Reuses, Unused
      <4>7. QED  BY <3>1, <4>1, <4>5, <4>6, IdOfStep
    <3>4. QED  BY <2>1, <3>2, <3>3, AboutStep
  <2>2. QED  BY <2>1 DEF AnswerInv
<1>2. CommandInv'
  <2>1. ASSUME NEW m \in Command, Sent(m)'
        PROVE  /\ m.call \in Calls /\ IdOf(m.id, m.call)'
               /\ outcome'[m.call] = "none" /\ pc'[m.call] \notin {"new", "write"}
    <3>1. m.id \in Ids
      BY DEF Command
    <3>2. CASE Sent(m) /\ (Execute => \E i \in DOMAIN up : i # 1 /\ up[i] = m)
      <4>1. /\ m.call \in Calls /\ IdOf(m.id, m.call) /\ m.call # "reset"
            /\ outcome[m.call] = "none" /\ pc[m.call] \notin {"new", "write"}
        BY <1>0, <3>2 DEF CommandInv, Sent
      <4>2. \A d \in Calls : TakeId(d) => m.id # nextId
        BY <3>2 DEF Reuses, Unused
      <4>3. ~(Execute /\ 1 \in DOMAIN up /\ up[1].call = m.call)
        BY <1>0, <3>2, <4>1 DEF CommandInv
      <4>4. outcome'[m.call] = outcome[m.call]
        BY <1>0, <4>1, <4>3, OutcomeStep
      <4>5. pc'[m.call] \notin {"new", "write"}
        BY <4>1, CallStep
      <4>6. QED  BY <3>1, <4>1, <4>2, <4>4, <4>5, IdOfStep
    <3>3. CASE Written(m)
      <4>1. PICK c \in Calls : Write(c) /\ m = [id |-> id[c], call |-> c]
        BY <3>3 DEF Written
      <4>2. m.call = c /\ m.id = id[c]
        BY <4>1
      <4>3. /\ pc[c] = "write" /\ pc' = [pc EXCEPT ![c] = "poll"] /\ id' = id
            /\ outcome' = outcome
        BY <4>1 DEF Write
      <4>4. IdOf(id[c], c) /\ outcome[c] = "none"
        BY <1>0, <4>3 DEF OpenInv, Open, CommandInv
      <4>5. \A d \in Calls : Open(d)' => Open(d)
        BY <4>3 DEF Open, TypeOK
      <4>6. pc'[c] = "poll"
        BY <4>3 DEF TypeOK
      <4>7. ASSUME NEW d \in Calls, Open(d)', id'[d] = m.id PROVE d = c
        BY <4>2, <4>3, <4>4, <4>5, <4>7 DEF IdOf
      <4>8. IdOf(m.id, m.call)'
        BY <4>2, <4>7 DEF IdOf
      <4>9. QED  BY <4>2, <4>3, <4>4, <4>6, <4>8
    <3>4. QED  BY <2>1, <3>2, <3>3, SentStep
  <2>2. Single'
    BY <1>0, SingleStep
  <2>3. ASSUME NEW c \in Calls, pc'[c] \in {"new", "write"} PROVE outcome'[c] = "none"
    BY <1>0, <2>3, CallStep, OutcomeStep DEF CommandInv
  <2>4. QED  BY <2>1, <2>2, <2>3 DEF CommandInv, Single
<1>3. OpenInv'
  <2>1. ASSUME NEW c \in Calls, NEW d \in Calls, Open(c)', Open(d)', id'[d] = id'[c]
        PROVE  d = c
    <3>1. CASE TakeId(c)
      <4>1. /\ pc[c] = "new" /\ pc' = [pc EXCEPT ![c] = "write"]
            /\ id' = [id EXCEPT ![c] = nextId]
            /\ \A e \in Calls : Open(e) => id[e] # nextId
        BY <3>1 DEF TakeId, Open
      <4>2. QED  BY <2>1, <4>1 DEF Open, TypeOK
    <3>2. CASE TakeId(d)
      <4>1. /\ pc[d] = "new" /\ pc' = [pc EXCEPT ![d] = "write"]
            /\ id' = [id EXCEPT ![d] = nextId]
            /\ \A e \in Calls : Open(e) => id[e] # nextId
        BY <3>2 DEF TakeId, Open
      <4>2. QED  BY <2>1, <4>1 DEF Open, TypeOK
    <3>3. CASE Open(c) /\ id'[c] = id[c] /\ Open(d) /\ id'[d] = id[d]
      BY <1>0, <2>1, <3>3 DEF OpenInv, IdOf
    <3>4. QED  BY <2>1, <3>1, <3>2, <3>3, CallStep
  <2>2. QED  BY <2>1 DEF OpenInv, IdOf
<1>4. OwnAnswer'
  <2>1. ASSUME NEW c \in Calls, pc'[c] \in {"ack", "nack"} PROVE pc'[c] = outcome'[c]
    <3>1. CASE pc'[c] = pc[c]
      BY <1>0, <2>1, <3>1, OutcomeStep DEF OwnAnswer
    <3>2. CASE Find(c)
      <4>1. PICK r \in responses : r.id = id[c] /\ pc' = [pc EXCEPT ![c] = r.kind]
        BY <3>2 DEF Find
      <4>2. Open(c) /\ outcome' = outcome
        BY <3>2 DEF Find, link, Open
      <4>3. pc'[c] = r.kind /\ r \in Packet
        BY <4>1 DEF TypeOK
      <4>4. About(r)
        BY <2>1, <4>1, <4>3 DEF About
      <4>5. r.kind = outcome[r.call] /\ IdOf(r.id, r.call)
        BY <1>0, <4>3, <4>4 DEF AnswerInv
      <4>6. r.call = c
        BY <4>1, <4>2, <4>5 DEF IdOf
      <4>7. QED  BY <4>2, <4>3, <4>5, <4>6
    <3>3. QED  BY <2>1, <3>1, <3>2, CallStep
  <2>2. QED  BY <2>1 DEF OwnAnswer
<1>5. QED  BY <1>1, <1>2, <1>3, <1>4 DEF RouteInv
-----------------------------------------------------------------------------
(* The library implements Rpc *)

Results == [c \in Calls |-> Result(c)]

\* One call's result changes.
LEMMA ResultsStep ==
  ASSUME TypeOK, NEW c \in Calls, NEW k, pc' = [pc EXCEPT ![c] = k]
  PROVE  Results' = [Results EXCEPT ![c] = CASE k = "new" -> "none"
                                             [] k \in {"write", "poll"} -> "open"
                                             [] OTHER -> k]
BY DEF Results, Result, TypeOK

LEMMA PromiseStep ==
  ASSUME ResponsesAreAMap, RouteInv, RouteInv', [Next]_vars
  PROVE  [Promise!Next]_(Promise!vars)
<1>0. TypeOK /\ CommandInv /\ AnswerInv
  BY DEF ResponsesAreAMap, RouteInv
<1>1. CASE UNCHANGED <<pc, outcome>>
  BY <1>1 DEF Promise!vars, Result
<1>2. ASSUME NEW c \in Calls, Transact(c) PROVE [Promise!Next]_(Promise!vars)
  <2>1. CASE TakeId(c)
    <3>1. pc' = [pc EXCEPT ![c] = "write"] /\ pc[c] = "new" /\ outcome' = outcome
      BY <2>1 DEF TakeId, link
    <3>2. Results' = [Results EXCEPT ![c] = "open"]
      BY <1>0, <3>1, ResultsStep
    <3>3. Results[c] = "none"
      BY <3>1 DEF Results, Result
    <3>4. Promise!Invoke(c)
      BY <3>1, <3>2, <3>3 DEF Promise!Invoke, Results
    <3>5. QED  BY <3>4 DEF Promise!Next
  <2>2. CASE Write(c)
    <3>1. pc' = [pc EXCEPT ![c] = "poll"] /\ pc[c] = "write" /\ outcome' = outcome
      BY <2>2 DEF Write
    <3>2. Results' = [Results EXCEPT ![c] = "open"]
      BY <1>0, <3>1, ResultsStep
    <3>3. Results[c] = "open"
      BY <3>1 DEF Results, Result
    <3>4. Results' = Results
      BY <3>2, <3>3 DEF Results
    <3>5. QED  BY <3>1, <3>4 DEF Promise!vars, Results
  <2>3. CASE WriteFails(c) \/ Expire(c)
    <3>1. /\ pc' = [pc EXCEPT ![c] = "failed"] /\ pc[c] \in {"write", "poll"}
          /\ outcome' = outcome
      BY <2>3 DEF WriteFails, Expire, link
    <3>2. Results' = [Results EXCEPT ![c] = "failed"]
      BY <1>0, <3>1, ResultsStep
    <3>3. Results[c] = "open"
      BY <3>1 DEF Results, Result
    <3>4. Promise!Fail(c)
      BY <3>1, <3>2, <3>3 DEF Promise!Fail, Results
    <3>5. QED  BY <3>4 DEF Promise!Next
  <2>4. CASE Find(c)
    <3>1. PICK r \in responses : r.id = id[c] /\ pc' = [pc EXCEPT ![c] = r.kind]
      BY <2>4 DEF Find
    <3>2. pc[c] = "poll" /\ outcome' = outcome
      BY <2>4 DEF Find, link
    <3>3. r \in Packet /\ r.kind # "debug"
      BY DEF ResponsesAreAMap, TypeOK
    <3>4. About(r) /\ r.kind \in {"ack", "nack"}
      BY <3>3 DEF About, Packet
    <3>5. r.kind = outcome[r.call] /\ IdOf(r.id, r.call)
      BY <1>0, <3>3, <3>4 DEF AnswerInv
    <3>6. r.kind = outcome[c]
      BY <3>1, <3>2, <3>5 DEF IdOf, Open
    <3>7. Results' = [Results EXCEPT ![c] = r.kind]
      BY <1>0, <3>1, <3>4, ResultsStep
    <3>8. Results[c] = "open"
      BY <3>2 DEF Results, Result
    <3>9. Promise!Answer(c)
      BY <3>2, <3>4, <3>6, <3>7, <3>8 DEF Promise!Answer, Results
    <3>10. QED  BY <3>9 DEF Promise!Next
  <2>5. QED  BY <1>2, <2>1, <2>2, <2>3, <2>4 DEF Transact
<1>3. CASE Execute
  <2>1. up # <<>> /\ Head(up).call # "reset" /\ pc' = pc
    BY <1>3 DEF Execute, caller
  <2>2. PICK o \in {"ack", "nack"} : outcome' = [outcome EXCEPT ![Head(up).call] = o]
    BY <1>3 DEF Execute
  <2>3. up \in Seq(Command)
    BY <1>0 DEF TypeOK, Command
  <2>4. Head(up) = up[1] /\ 1 \in DOMAIN up /\ Head(up) \in Command
    BY <2>1, <2>3, Removed
  <2>5. Sent(Head(up))
    BY <2>1, <2>4 DEF Sent
  <2>6. PICK c \in Calls : c = Head(up).call
    BY <1>0, <2>4, <2>5 DEF CommandInv
  <2>7. outcome[c] = "none" /\ pc[c] # "new"
    BY <1>0, <2>4, <2>5, <2>6 DEF CommandInv
  <2>8. Results[c] # "none"
    <3>1. pc[c] \in {"write", "poll", "ack", "nack", "failed"}
      BY <1>0, <2>7 DEF TypeOK
    <3>2. QED  BY <3>1 DEF Results, Result
  <2>9. Results' = Results
    BY <2>1 DEF Results, Result
  <2>10. Promise!Execute(c)
    BY <2>2, <2>6, <2>7, <2>8, <2>9 DEF Promise!Execute, Results
  <2>11. QED  BY <2>10 DEF Promise!Next
<1>4. CASE SendReset \/ Reader \/ Closing \/ (Device /\ ~Execute) \/ UNCHANGED vars
  BY <1>1, <1>4 DEF SendReset, Reader, Read, Parse, ParseDone, Closing, Close, CloseDrop,
                    CloseClear, Device, ExecuteReset, Debug, LoseCommand,
                    LoseReply, caller, link, vars
<1>5. QED  BY <1>2, <1>3, <1>4 DEF Next

LEMMA InitPromise == Init => Promise!Init
BY DEF Init, Promise!Init, Result

LEMMA RouteInductive == Spec /\ NoReuse => [](ResponsesAreAMap /\ RouteInv)
<1>1. ResponsesAreAMap => TypeOK
  BY DEF ResponsesAreAMap
<1>2. ResponsesAreAMap /\ RouteInv /\ [Next]_vars /\ [~Reuses]_vars => RouteInv'
  <2>1. ASSUME ResponsesAreAMap, RouteInv, UNCHANGED vars PROVE RouteInv'
    <3>1. UNCHANGED <<pc, id, responses, rxBuf, up, down, outcome>>
      BY <2>1 DEF vars
    <3>2. QED
      BY <2>1, <3>1 DEF RouteInv, AnswerInv, CommandInv, OpenInv, OwnAnswer, About, Sent,
                        Open, IdOf
  <2>2. QED  BY <1>1, <2>1, TypeStep, RouteStep
<1>3. QED
  BY <1>2, InitMap, MapStep, InitRoute, PTL DEF Spec, NoReuse

\* The library implements Rpc as long as no call takes an id that a packet still
\* carries: however calls of transact, the reader, close, losses and timeouts
\* interleave, an answer is the device's answer to that very command, and no command
\* is executed twice.
THEOREM RpcUnlessReused == Spec /\ NoReuse => IsRpc
<1>1. ResponsesAreAMap /\ RouteInv /\ RouteInv' /\ [Next]_vars
        => [Promise!Next]_(Promise!vars)
  BY PromiseStep
<1>2. QED
  BY <1>1, InitPromise, RouteInductive, PTL DEF Spec, IsRpc, Promise!Spec
-----------------------------------------------------------------------------
(* Fewer calls than ids *)

LEMMA Wraps ==
  ASSUME NEW k \in Nat, k + 1 < IdSpace
  PROVE  (Nth(k) + 1) % IdSpace = Nth(k + 1) /\ Nth(k) \in Nat
<1>1. Nth(k) = k + 1
  BY DEF Nth
<1>2. (k + 1 + 1) % IdSpace = IF k + 1 + 1 = IdSpace THEN 0 ELSE k + 1 + 1
  BY HostAssumption
<1>3. QED  BY <1>1, <1>2 DEF Nth

LEMMA NthDiffers ==
  ASSUME NEW k \in Nat, NEW n \in Nat, k < n, n < IdSpace
  PROVE  Nth(k) # Nth(n)
BY HostAssumption DEF Nth

\* Ids taken grow with each call that starts.
LEMMA StartedIs ==
  ASSUME TypeOK
  PROVE  /\ IsFiniteSet(Started) /\ Cardinality(Started) \in Nat /\ Taken \in Nat
         /\ \A c \in Calls : c \notin Started => Cardinality(Started) < Cardinality(Calls)
         /\ Cardinality(Started) <= Cardinality(Calls)
<1>1. IsFiniteSet(Calls) /\ Started \in SUBSET Calls
  BY HostAssumption DEF Started
<1>2. /\ IsFiniteSet(Started) /\ Cardinality(Started) <= Cardinality(Calls)
      /\ Cardinality(Calls) = Cardinality(Started) => Calls = Started
  BY <1>1, FS_Subset
<1>3. Cardinality(Started) \in Nat /\ Cardinality(Calls) \in Nat
  BY <1>1, <1>2, FS_CardinalityType
<1>4. Taken \in Nat
  BY <1>3, HostAssumption DEF Taken, TypeOK
<1>5. QED  BY <1>2, <1>3, <1>4

\* When an id is taken.
LEMMA StartedStep ==
  ASSUME TypeOK, [Next]_vars
  PROVE  \/ Started' = Started /\ Taken' = Taken /\ UNCHANGED <<nextId, id>>
         \/ /\ SendReset /\ Started' = Started /\ Taken' = Taken + 1 /\ id' = id
            /\ nextId' = (nextId + 1) % IdSpace
         \/ /\ Taken' = Taken + 1 /\ nextId' = (nextId + 1) % IdSpace
            /\ \E c \in Calls \ Started :
                 /\ TakeId(c) /\ Started' = Started \cup {c}
                 /\ id' = [id EXCEPT ![c] = nextId]
<1>0. IsFiniteSet(Started) /\ Cardinality(Started) \in Nat /\ resets \in Nat
  BY StartedIs, HostAssumption DEF TypeOK
<1>1. CASE UNCHANGED <<pc, id, nextId, resets>>
  BY <1>1 DEF Started, Taken
<1>2. CASE SendReset
  <2>1. resets' = resets + 1 /\ pc' = pc /\ id' = id /\ nextId' = (nextId + 1) % IdSpace
    BY <1>2 DEF SendReset
  <2>2. Started' = Started
    BY <2>1 DEF Started
  <2>3. Taken' = Taken + 1
    BY <1>0, <2>1, <2>2 DEF Taken
  <2>4. QED  BY <1>2, <2>1, <2>2, <2>3
<1>3. ASSUME NEW c \in Calls, TakeId(c)
      PROVE  /\ Taken' = Taken + 1 /\ nextId' = (nextId + 1) % IdSpace
             /\ c \notin Started /\ Started' = Started \cup {c}
             /\ id' = [id EXCEPT ![c] = nextId]
  <2>1. /\ pc[c] = "new" /\ pc' = [pc EXCEPT ![c] = "write"] /\ resets' = resets
        /\ id' = [id EXCEPT ![c] = nextId] /\ nextId' = (nextId + 1) % IdSpace
    BY <1>3 DEF TakeId, link
  <2>2. c \notin Started /\ Started' = Started \cup {c}
    BY <2>1 DEF Started, TypeOK
  <2>3. Cardinality(Started') = Cardinality(Started) + 1
    BY <1>0, <2>2, FS_AddElement
  <2>4. Taken' = Taken + 1
    BY <1>0, <2>1, <2>3 DEF Taken
  <2>5. QED  BY <2>1, <2>2, <2>4
<1>4. ASSUME NEW c \in Calls, Write(c) \/ WriteFails(c) \/ Find(c) \/ Expire(c)
      PROVE  Started' = Started /\ Taken' = Taken /\ UNCHANGED <<nextId, id>>
  <2>1. /\ pc[c] # "new" /\ UNCHANGED <<nextId, id, resets>>
        /\ \E k : k # "new" /\ pc' = [pc EXCEPT ![c] = k]
    <3>1. CASE Write(c) \/ WriteFails(c) \/ Expire(c)
      BY <3>1 DEF Write, WriteFails, Expire, link
    <3>2. CASE Find(c)
      <4>1. \A r \in responses : r.kind # "new"
        BY DEF TypeOK, Packet
      <4>2. QED  BY <3>2, <4>1 DEF Find, link
    <3>3. QED  BY <1>4, <3>1, <3>2
  <2>2. Started' = Started
    BY <2>1 DEF Started, TypeOK
  <2>3. QED  BY <2>1, <2>2 DEF Taken
<1>5. CASE Reader \/ Closing \/ Device \/ UNCHANGED vars
  BY <1>1, <1>5 DEF Reader, Read, Parse, ParseDone, Closing, Close, CloseDrop,
                    CloseClear, Device, Execute, ExecuteReset, Debug, LoseCommand,
                    LoseReply, caller, link, vars
<1>6. QED  BY <1>2, <1>3, <1>4, <1>5 DEF Next, Transact

LEMMA InitCount == Init => CountInv /\ IdInv
<1> SUFFICES ASSUME Init PROVE CountInv /\ IdInv
  OBVIOUS
<1>1. Started = {} /\ resets = 0 /\ nextId = 1 % IdSpace
  BY DEF Init, Started
<1>2. Taken = 0
  BY <1>1, FS_EmptySet DEF Taken
<1>3. 0 < IdSpace => 1 % IdSpace = Nth(0)
  BY HostAssumption DEF Nth
<1>4. DOMAIN up = {} /\ DOMAIN down = {} /\ DOMAIN rxBuf = {} /\ responses = {}
  BY DEF Init
<1>5. QED  BY <1>1, <1>2, <1>3, <1>4 DEF CountInv, IdInv, About, Sent

LEMMA CountStep ==
  ASSUME NoWrap, TypeOK, CountInv, [Next]_vars
  PROVE  CountInv'
<1>0. /\ Taken \in Nat /\ IdSpace \in Nat /\ IdSpace > 0 /\ Taken' \in {Taken, Taken + 1}
      /\ Started \subseteq Calls
  BY StartedIs, StartedStep, HostAssumption DEF Started
<1>1. CASE Started' = Started /\ Taken' = Taken /\ UNCHANGED <<nextId, id>>
  BY <1>1 DEF CountInv
<1>2. CASE Taken' = Taken + 1 /\ nextId' = (nextId + 1) % IdSpace
  <2>1. ASSUME Taken + 1 < IdSpace PROVE nextId' = Nth(Taken + 1)
    BY <1>0, <1>2, <2>1, Wraps DEF CountInv
  <2>2. ASSUME NEW c \in Started, id'[c] = id[c]
        PROVE  \E k \in 0 .. Taken : id'[c] = Nth(k)
    <3>1. PICK k \in 0 .. Taken - 1 : id[c] = Nth(k)
      BY <2>2 DEF CountInv
    <3>2. k \in 0 .. Taken
      BY <1>0, <3>1
    <3>3. QED  BY <2>2, <3>1, <3>2
  <2>3. ASSUME NEW c \in Started' PROVE \E k \in 0 .. Taken : id'[c] = Nth(k)
    <3>1. CASE c \in Started /\ id'[c] = id[c]
      BY <2>2, <3>1
    <3>2. ASSUME TakeId(c), c \in Calls \ Started, id' = [id EXCEPT ![c] = nextId]
          PROVE  \E k \in 0 .. Taken : id'[c] = Nth(k)
      <4>1. Taken < IdSpace
        <5>1. Cardinality(Started) \in Nat /\ Cardinality(Started) < Cardinality(Calls)
          BY <3>2, StartedIs
        <5>2. Cardinality(Calls) \in Nat /\ Cardinality(Calls) + MaxResets <= IdSpace
          BY HostAssumption, FS_CardinalityType DEF NoWrap
        <5>3. resets \in 0 .. MaxResets /\ MaxResets \in Nat
          BY HostAssumption DEF TypeOK
        <5>4. QED  BY <1>0, <5>1, <5>2, <5>3 DEF Taken
      <4>2. id'[c] = Nth(Taken) /\ Taken \in 0 .. Taken
        BY <1>0, <3>2, <4>1 DEF CountInv, TypeOK
      <4>3. QED  BY <4>2
    <3>3. QED
      <4>1. CASE Started' = Started /\ id' = id
        BY <2>3, <3>1, <4>1
      <4>2. ASSUME NEW d \in Calls \ Started, TakeId(d), Started' = Started \cup {d},
                   id' = [id EXCEPT ![d] = nextId]
            PROVE  \E k \in 0 .. Taken : id'[c] = Nth(k)
        <5>1. CASE c = d
          BY <3>2, <4>2, <5>1
        <5>2. CASE c # d
          BY <1>0, <2>3, <3>1, <4>2, <5>2 DEF TypeOK
        <5>3. QED  BY <5>1, <5>2
      <4>3. Taken' # Taken
        BY <1>0, <1>2
      <4>4. QED  BY <4>1, <4>2, <4>3, StartedStep
  <2>4. Taken' - 1 = Taken
    BY <1>0, <1>2
  <2>5. Taken' < IdSpace => nextId' = Nth(Taken')
    BY <1>2, <2>1
  <2>6. \A c \in Started' : \E k \in 0 .. Taken' - 1 : id'[c] = Nth(k)
    BY <2>3, <2>4
  <2>7. QED  BY <2>5, <2>6 DEF CountInv
<1>3. QED  BY <1>1, <1>2, StartedStep

LEMMA IdStep ==
  ASSUME TypeOK, CommandInv, IdInv, [Next]_vars
  PROVE  IdInv'
<1>1. ASSUME NEW c \in Started PROVE c \in Started' /\ id'[c] = id[c]
  <2>1. ASSUME NEW d \in Calls \ Started, id' = [id EXCEPT ![d] = nextId]
        PROVE  id'[c] = id[c]
    BY <1>1, <2>1 DEF TypeOK, Started
  <2>2. QED  BY <1>1, <2>1, StartedStep
<1>2. ASSUME NEW p \in Packet, About(p)' PROVE p.call \in Started' /\ p.id = id'[p.call]
  <2>1. CASE About(p)
    BY <1>1, <2>1 DEF IdInv
  <2>2. CASE Answered(p)
    <3>1. /\ up # <<>> /\ Head(up).call # "reset"
          /\ p.id = Head(up).id /\ p.call = Head(up).call
      BY <2>2 DEF Answered, Execute
    <3>2. up \in Seq(Command)
      BY DEF TypeOK, Command
    <3>3. Head(up) = up[1] /\ 1 \in DOMAIN up /\ Head(up) \in Command
      BY <3>1, <3>2, Removed
    <3>4. Sent(Head(up))
      BY <3>1, <3>3 DEF Sent
    <3>5. p.call \in Started /\ p.id = id[p.call]
      BY <3>1, <3>3, <3>4 DEF IdInv
    <3>6. QED  BY <1>1, <3>5
  <2>3. QED  BY <1>2, <2>1, <2>2, AboutStep
<1>3. ASSUME NEW m \in Command, Sent(m)' PROVE m.call \in Started' /\ m.id = id'[m.call]
  <2>1. CASE Sent(m)
    BY <1>1, <2>1 DEF IdInv
  <2>2. CASE Written(m)
    <3>1. PICK c \in Calls : Write(c) /\ m = [id |-> id[c], call |-> c]
      BY <2>2 DEF Written
    <3>2. c \in Started
      BY <3>1 DEF Write, Started
    <3>3. QED  BY <1>1, <3>1, <3>2
  <2>3. QED  BY <1>3, <2>1, <2>2, SentStep
<1>4. QED  BY <1>2, <1>3 DEF IdInv

\* The id that a call takes is none of those that a packet can carry.
LEMMA NewId ==
  ASSUME NoWrap, TypeOK, CountInv, IdInv
  PROVE  ~Reuses
<1>1. ASSUME NEW c \in Calls, TakeId(c) PROVE Unused(nextId)
  <2>1. c \notin Started
    BY <1>1 DEF TakeId, Started
  <2>2. Taken \in Nat /\ Taken < IdSpace
    <3>1. Cardinality(Started) \in Nat /\ Cardinality(Started) < Cardinality(Calls)
      BY <2>1, StartedIs
    <3>2. Cardinality(Calls) \in Nat /\ Cardinality(Calls) + MaxResets <= IdSpace
      BY HostAssumption, FS_CardinalityType DEF NoWrap
    <3>3. resets \in 0 .. MaxResets /\ MaxResets \in Nat /\ IdSpace \in Nat
      BY HostAssumption DEF TypeOK
    <3>4. Taken \in Nat
      BY StartedIs
    <3>5. QED  BY <3>1, <3>2, <3>3, <3>4 DEF Taken
  <2>3. ASSUME NEW d \in Started PROVE id[d] # nextId
    <3>1. PICK k \in 0 .. Taken - 1 : id[d] = Nth(k)
      BY DEF CountInv
    <3>2. k \in Nat /\ k < Taken
      BY <2>2
    <3>3. QED  BY <2>2, <3>1, <3>2, NthDiffers DEF CountInv
  <2>4. QED  BY <2>3 DEF IdInv, Unused
<1>2. QED  BY <1>1 DEF Reuses

LEMMA CountInductive ==
  NoWrap /\ Spec => [](ResponsesAreAMap /\ RouteInv /\ CountInv /\ IdInv)
<1> DEFINE I == ResponsesAreAMap /\ RouteInv /\ CountInv /\ IdInv
<1> SUFFICES ASSUME NoWrap PROVE Spec => []I
  OBVIOUS
<1>1. Init => I
  BY InitMap, InitRoute, InitCount
<1>2. I /\ [Next]_vars => I'
  <2> SUFFICES ASSUME I, [Next]_vars PROVE I'
    OBVIOUS
  <2>1. TypeOK /\ CommandInv
    BY DEF ResponsesAreAMap, RouteInv
  <2>2. ~Reuses
    BY <2>1, NewId
  <2>3. ResponsesAreAMap' /\ TypeOK'
    BY MapStep, TypeStep
  <2>4. RouteInv'
    BY <2>1, <2>2, <2>3, RouteStep
  <2>5. CountInv' /\ IdInv'
    BY <2>1, CountStep, IdStep
  <2>6. QED  BY <2>3, <2>4, <2>5
<1>3. QED  BY <1>1, <1>2, PTL DEF Spec

\* With calls and resets in no greater number than the ids, nothing more has to be
\* asked: the library implements Rpc.
THEOREM RpcCorrect == NoWrap /\ Spec => IsRpc
<1>1. ResponsesAreAMap /\ RouteInv /\ RouteInv' /\ [Next]_vars
        => [Promise!Next]_(Promise!vars)
  BY PromiseStep
<1>2. QED
  BY <1>1, InitPromise, CountInductive, PTL DEF Spec, IsRpc, Promise!Spec

\* Nor can transact return the answer to another call, which it does once next_id
\* has come round.
THEOREM OwnAnswerCorrect == NoWrap /\ Spec => []OwnAnswer
<1>1. RouteInv => OwnAnswer
  BY DEF RouteInv
<1>2. QED  BY <1>1, CountInductive, PTL
=============================================================================
