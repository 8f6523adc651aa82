-------------------------------- MODULE HostApi --------------------------------
(***************************************************************************)
(* The host library (minihf_api/src/lib.rs): any number of threads call    *)
(* transact, which takes an id, writes a frame under the port lock and     *)
(* polls the map of responses until its deadline; a reader thread moves    *)
(* packets from the port to that map; close takes the port away.           *)
(*                                                                         *)
(* The line and the device are the other side: packets get lost, in order  *)
(* otherwise, and the device executes and answers what arrives, which is   *)
(* what UartRx and UartTx implement.                                       *)
(***************************************************************************)
EXTENDS Naturals, Sequences, FiniteSets

CONSTANTS Calls,      \* calls of transact
          IdSpace,    \* 65536, the values of next_id
          MaxDebug,   \* bound: debug messages the device sends
          MaxResets   \* bound: calls of reset

ASSUME HostAssumption ==
  /\ IsFiniteSet(Calls) /\ IdSpace \in Nat \ {0}
  /\ MaxDebug \in Nat /\ MaxResets \in Nat

VARIABLES
  pc,         \* per call: "new", "write", "poll", then "ack", "nack" or "failed"
  id,         \* per call: current_id
  nextId,     \* next_id
  port,       \* Some(port)
  running,    \* is_running
  responses,  \* the map: a set of packets with different ids
  reader,     \* the reader thread: "loop", "parse" or "exit"
  rxBuf,      \* packets it has read and not yet parsed
  closer,     \* a thread in close: "no", "drop", "clear" (with the port lock) or "done"
  up, down,   \* packets on their way to the device and to the host
  outcome,    \* history: the device's answer to each call
  debugs,     \* debug messages sent
  resets      \* calls of reset

caller == <<pc, id, nextId>>
api    == <<port, running, closer>>
read   == <<responses, reader, rxBuf>>
link   == <<up, down, outcome, debugs, resets>>
vars   == <<pc, id, nextId, port, running, responses, reader, rxBuf, closer,
            up, down, outcome, debugs, resets>>

Init ==
  /\ pc = [c \in Calls |-> "new"] /\ id = [c \in Calls |-> 0] /\ nextId = 1 % IdSpace
  /\ port = TRUE /\ running = TRUE /\ closer = "no"
  /\ responses = {} /\ reader = "loop" /\ rxBuf = <<>>
  /\ up = <<>> /\ down = <<>> /\ debugs = 0 /\ resets = 0
  /\ outcome = [c \in Calls |-> "none"]

\* close holds the port lock from the moment it drops the port until it has
\* cleared the map; every other critical section is one step here.
PortFree == closer # "clear"
-----------------------------------------------------------------------------
(* transact *)

\* Two calls in progress never have the same id: the 65536 values do not come
\* round within one timeout, so neither may the few of a small instance.
TakeId(c) ==
  /\ pc[c] = "new"
  /\ \A d \in Calls : pc[d] \in {"write", "poll"} => id[d] # nextId
  /\ pc' = [pc EXCEPT ![c] = "write"]
  /\ id' = [id EXCEPT ![c] = nextId]
  /\ nextId' = (nextId + 1) % IdSpace
  /\ UNCHANGED <<api, read, link>>

Write(c) ==
  /\ pc[c] = "write" /\ PortFree /\ port
  /\ pc' = [pc EXCEPT ![c] = "poll"]
  /\ up' = Append(up, [id |-> id[c], call |-> c])
  /\ UNCHANGED <<id, nextId, api, read, down, outcome, debugs, resets>>

\* PortClosed, or an error of write_all with the frame incomplete on the line.
WriteFails(c) ==
  /\ pc[c] = "write" /\ PortFree
  /\ pc' = [pc EXCEPT ![c] = "failed"]
  /\ UNCHANGED <<id, nextId, api, read, link>>

\* Mutant: the first response in the map is taken, whatever its id.
FindAny(c) ==
  /\ pc[c] = "poll"
  /\ \E r \in responses :
       /\ pc' = [pc EXCEPT ![c] = r.kind]
       /\ responses' = responses \ {r}
  /\ UNCHANGED <<id, nextId, api, reader, rxBuf, link>>

Find(c) ==
  /\ pc[c] = "poll"
  /\ \E r \in responses :
       /\ r.id = id[c]
       /\ pc' = [pc EXCEPT ![c] = r.kind]
       /\ responses' = responses \ {r}
  /\ UNCHANGED <<id, nextId, api, reader, rxBuf, link>>

\* Mutant: the deadline is looked at only when the map is empty.
ExpireIfEmpty(c) ==
  /\ pc[c] = "poll" /\ responses = {}
  /\ pc' = [pc EXCEPT ![c] = "failed"]
  /\ UNCHANGED <<id, nextId, api, read, link>>

\* The deadline passes; it is looked at before the map is.
Expire(c) ==
  /\ pc[c] = "poll"
  /\ pc' = [pc EXCEPT ![c] = "failed"]
  /\ UNCHANGED <<id, nextId, api, read, link>>

\* reset goes through send_only: it takes an id too and waits for no answer.
SendReset ==
  /\ resets < MaxResets /\ resets' = resets + 1
  /\ PortFree
  /\ nextId' = (nextId + 1) % IdSpace
  /\ \/ port /\ up' = Append(up, [id |-> nextId, call |-> "reset"])
     \/ UNCHANGED up
  /\ UNCHANGED <<pc, id, api, read, down, outcome, debugs>>
-----------------------------------------------------------------------------
(* The reader thread *)

\* Mutant: the thread never looks at is_running.
ReadNever ==
  /\ reader = "loop" /\ PortFree
  /\ IF port /\ down # <<>>
     THEN reader' = "parse" /\ rxBuf' = down /\ down' = <<>>
     ELSE UNCHANGED <<reader, rxBuf, down>>
  /\ UNCHANGED <<caller, api, responses, up, outcome, debugs, resets>>

\* Takes what the port has; without a port or data it goes round again.
Read ==
  /\ reader = "loop" /\ PortFree
  /\ IF ~running THEN reader' = "exit" /\ UNCHANGED <<rxBuf, down>>
     ELSE /\ port /\ down # <<>>
          /\ reader' = "parse" /\ rxBuf' = down /\ down' = <<>>
  /\ UNCHANGED <<caller, api, responses, up, outcome, debugs, resets>>

\* Mutant: every packet goes into the responses.
ParseKeep ==
  /\ reader = "parse" /\ rxBuf # <<>>
  /\ rxBuf' = Tail(rxBuf)
  /\ responses' = responses \cup {Head(rxBuf)}
  /\ UNCHANGED <<caller, api, reader, link>>

\* map.insert replaces the packet that had the id; debug messages go elsewhere.
Parse ==
  /\ reader = "parse" /\ rxBuf # <<>>
  /\ rxBuf' = Tail(rxBuf)
  /\ LET p == Head(rxBuf)
     IN responses' = IF p.kind = "debug" THEN responses
                     ELSE {r \in responses : r.id # p.id} \cup {p}
  /\ UNCHANGED <<caller, api, reader, link>>

ParseDone ==
  /\ reader = "parse" /\ rxBuf = <<>>
  /\ reader' = "loop"
  /\ UNCHANGED <<caller, api, responses, rxBuf, link>>
-----------------------------------------------------------------------------
(* close *)

Close ==
  /\ closer = "no" /\ closer' = "drop"
  /\ running' = FALSE
  /\ UNCHANGED <<caller, port, read, link>>

CloseDrop ==
  /\ closer = "drop" /\ closer' = "clear"
  /\ port' = FALSE
  /\ UNCHANGED <<caller, running, read, link>>

CloseClear ==
  /\ closer = "clear" /\ closer' = "done"
  /\ responses' = {}
  /\ UNCHANGED <<caller, port, running, reader, rxBuf, link>>
-----------------------------------------------------------------------------
(* The line and the device *)

Reply(m, o) == [id |-> m.id, kind |-> o, call |-> m.call]

\* parse_dispatch_packet, the handler of the command and its reply.
Execute ==
  /\ up # <<>> /\ Head(up).call # "reset"
  /\ LET m == Head(up)
     IN \E o \in {"ack", "nack"} :
          /\ outcome' = [outcome EXCEPT ![m.call] = o]
          /\ down' = Append(down, Reply(m, o))
  /\ up' = Tail(up)
  /\ UNCHANGED <<caller, api, read, debugs, resets>>

\* handle_reset: nothing is answered, and what the device had not sent is gone.
ExecuteReset ==
  /\ up # <<>> /\ Head(up).call = "reset"
  /\ up' = Tail(up) /\ down' = <<>>
  /\ UNCHANGED <<caller, api, read, outcome, debugs, resets>>

\* Debug messages carry id 0, which next_id takes too when it wraps.
Debug ==
  /\ debugs < MaxDebug /\ debugs' = debugs + 1
  /\ down' = Append(down, [id |-> 0, kind |-> "debug", call |-> "none"])
  /\ UNCHANGED <<caller, api, read, up, outcome, resets>>

LoseCommand ==
  /\ up # <<>> /\ up' = Tail(up)
  /\ UNCHANGED <<caller, api, read, down, outcome, debugs, resets>>

LoseReply ==
  /\ down # <<>> /\ down' = Tail(down)
  /\ UNCHANGED <<caller, api, read, up, outcome, debugs, resets>>
-----------------------------------------------------------------------------
Transact(c) == TakeId(c) \/ Write(c) \/ WriteFails(c) \/ Find(c) \/ Expire(c)
Reader == Read \/ Parse \/ ParseDone
Closing == Close \/ CloseDrop \/ CloseClear
Device == Execute \/ ExecuteReset \/ Debug \/ LoseCommand \/ LoseReply

Next == (\E c \in Calls : Transact(c)) \/ SendReset \/ Reader \/ Closing \/ Device

Spec == Init /\ [][Next]_vars

\* The operating system runs every thread; nothing is asked of the device, and
\* nobody has to call transact or close.
FairSpec == /\ Spec /\ WF_vars(Reader) /\ WF_vars(CloseDrop \/ CloseClear)
            /\ \A c \in Calls : WF_vars(Write(c) \/ WriteFails(c)) /\ WF_vars(Expire(c))
-----------------------------------------------------------------------------
Ids == 0 .. IdSpace - 1

Packet == [id : Ids, kind : {"ack", "nack", "debug"}, call : Calls \cup {"none"}]

TypeOK ==
  /\ pc \in [Calls -> {"new", "write", "poll", "ack", "nack", "failed"}]
  /\ id \in [Calls -> Ids] /\ nextId \in Ids
  /\ port \in BOOLEAN /\ running \in BOOLEAN
  /\ closer \in {"no", "drop", "clear", "done"}
  /\ responses \subseteq Packet /\ reader \in {"loop", "parse", "exit"}
  /\ rxBuf \in Seq(Packet) /\ down \in Seq(Packet)
  /\ up \in Seq([id : Ids, call : Calls \cup {"reset"}])
  /\ outcome \in [Calls -> {"none", "ack", "nack"}] /\ debugs \in 0 .. MaxDebug
  /\ resets \in 0 .. MaxResets

\* The responses are a map: an id has one packet in it, and it is no debug message.
ResponsesAreAMap ==
  /\ TypeOK
  /\ \A r, s \in responses : r.kind # "debug" /\ (r.id = s.id => r = s)

\* The library implements Rpc as long as ids are not reused: however calls, the
\* reader, close, losses and timeouts interleave, a call that returns an answer
\* returns the device's answer to itself, and no command is executed twice.
Result(c) == CASE pc[c] = "new" -> "none"
               [] pc[c] \in {"write", "poll"} -> "open"
               [] OTHER -> pc[c]

Promise == INSTANCE Rpc WITH result <- [c \in Calls |-> Result(c)]

IsRpc == Promise!Spec

\* A call that has begun returns, whatever is lost and whoever closes the port.
EveryCallReturns ==
  \A c \in Calls : (pc[c] = "write") ~> (pc[c] \in {"ack", "nack", "failed"})

\* The reader thread ends after close.
ReaderEnds == (closer = "done") ~> (reader = "exit")

\* lib.rs:420 says of a response packet "route it to `transact`": the call that
\* takes a response is the one it answers.
OwnAnswer ==
  \A c \in Calls : pc[c] \in {"ack", "nack"} => pc[c] = outcome[c]
=============================================================================
