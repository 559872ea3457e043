--------------------------- MODULE BroadcastStream ---------------------------
(***************************************************************************)
(* How the gRPC services stream what is published to their clients         *)
(* (subscribe_signals of tg-signal-engine, subscribe_decisions of          *)
(* tg-decision-agent): a tokio broadcast channel keeps the newest Ring     *)
(* items for all its receivers; for each client a spawned task receives    *)
(* from it, drops what the client does not want, and sends the rest into a *)
(* channel of Room items that the client reads.  An item is known by its   *)
(* number in sent, and a new receiver begins behind the last one.          *)
(***************************************************************************)
EXTENDS Integers, Sequences, SequencesExt

CONSTANTS
  Clients,
  Ring,           \* capacity of the broadcast channel
  Room,           \* capacity of a client's channel
  Wants(_, _)     \* whether a client asked for the symbol of an item

VARIABLES
  sent,           \* the items sent so far
  sub             \* per client: the task, its channel, and what was read

stream == <<sent, sub>>

NotSubscribed ==
  [pc |-> "off", since |-> 1, next |-> 1, held |-> 0, room |-> <<>>, open |-> FALSE,
   got |-> <<>>, skipped |-> {}]

StreamInit ==
  /\ sent = <<>>
  /\ sub = [c \in Clients |-> NotSubscribed]

(* broadcast::Sender::send *)
Send(item) == sent' = Append(sent, item)

(* subscribe: the receiver is created in the call, the task spawned. *)
Subscribe(c) ==
  /\ sub[c].pc = "off"
  /\ sub' = [sub EXCEPT ![c] = [NotSubscribed EXCEPT
               !.pc = "recv", !.open = TRUE, !.since = Len(sent) + 1, !.next = Len(sent) + 1]]
  /\ UNCHANGED sent

Oldest == IF Len(sent) > Ring THEN Len(sent) - Ring + 1 ELSE 1

(* Mutant of Lagged: the receiver goes on with the newest item. *)
LaggedToNewest(c) ==
  /\ sub[c].pc = "recv" /\ sub[c].next < Oldest
  /\ sub' = [sub EXCEPT ![c].next = Len(sent),
                        ![c].skipped = @ \cup sub[c].next..(Len(sent) - 1)]
  /\ UNCHANGED sent

(* RecvError::Lagged: items were overwritten; the receiver goes on with the *)
(* oldest there is.                                                         *)
Lagged(c) ==
  /\ sub[c].pc = "recv" /\ sub[c].next < Oldest
  /\ sub' = [sub EXCEPT ![c].next = Oldest,
                        ![c].skipped = @ \cup sub[c].next..(Oldest - 1)]
  /\ UNCHANGED sent

Receive(c) ==
  LET n == sub[c].next
  IN  /\ sub[c].pc = "recv" /\ Oldest <= n /\ n <= Len(sent)
      /\ sub' = IF Wants(c, sent[n])
                THEN [sub EXCEPT ![c].next = n + 1, ![c].held = n, ![c].pc = "send"]
                ELSE [sub EXCEPT ![c].next = n + 1]
      /\ UNCHANGED sent

(* Mutant of Forward: a full channel is taken for a closed one. *)
ForwardOrBreak(c) ==
  /\ sub[c].pc = "send" /\ sub[c].open
  /\ sub' = IF Len(sub[c].room) < Room
            THEN [sub EXCEPT ![c].room = Append(@, sub[c].held), ![c].held = 0, ![c].pc = "recv"]
            ELSE [sub EXCEPT ![c].held = 0, ![c].pc = "gone"]
  /\ UNCHANGED sent

(* tx.send, which waits for room. *)
Forward(c) ==
  /\ sub[c].pc = "send" /\ sub[c].open /\ Len(sub[c].room) < Room
  /\ sub' = [sub EXCEPT ![c].room = Append(@, sub[c].held), ![c].held = 0, ![c].pc = "recv"]
  /\ UNCHANGED sent

(* The client has hung up, which the task finds out when it sends. *)
ForwardFails(c) ==
  /\ sub[c].pc = "send" /\ ~sub[c].open
  /\ sub' = [sub EXCEPT ![c].held = 0, ![c].pc = "gone"]
  /\ UNCHANGED sent

(* The client reads its stream. *)
Read(c) ==
  /\ sub[c].open /\ sub[c].room # <<>>
  /\ sub' = [sub EXCEPT ![c].got = Append(@, Head(sub[c].room)), ![c].room = Tail(@)]
  /\ UNCHANGED sent

HangUp(c) ==
  /\ sub[c].open
  /\ sub' = [sub EXCEPT ![c].open = FALSE, ![c].room = <<>>]
  /\ UNCHANGED sent

ForwarderStep(c) == Lagged(c) \/ Receive(c) \/ Forward(c) \/ ForwardFails(c)

ClientStep(c) == Subscribe(c) \/ Read(c) \/ HangUp(c)

-----------------------------------------------------------------------------
(* What has gone past a client's task and is still on its way. *)
OnTheWay(s) == s.got \o s.room \o (IF s.held = 0 THEN <<>> ELSE <<s.held>>)

(***************************************************************************)
(* A client that listens gets what it asked for in the order it was sent,  *)
(* each item once, and misses nothing since it subscribed but items that   *)
(* were overwritten: more than Ring newer ones had been sent (the tasks of *)
(* subscribe_signals and subscribe_decisions).                             *)
(***************************************************************************)
InOrderOnce ==
  \A c \in Clients :
    LET s      == sub[c]
        way    == OnTheWay(s)
        passed == s.since..(s.next - 1)
    IN  /\ \A n \in s.skipped : n < Oldest
        /\ s.open => /\ Range(way) = {n \in passed \ s.skipped : Wants(c, sent[n])}
                     /\ \A i, j \in DOMAIN way : i < j => way[i] < way[j]

(***************************************************************************)
(* A client that goes on reading has read, in the end, all that was sent   *)
(* and not overwritten: a full channel delays its task and nobody else.    *)
(***************************************************************************)
ReadersCatchUp ==
  <>[](\A c \in Clients :
         sub[c].open => sub[c].pc = "recv" /\ sub[c].next > Len(sent) /\ sub[c].room = <<>>)

StreamFairness ==
  \A c \in Clients : WF_stream(ForwarderStep(c)) /\ WF_stream(Read(c))

=============================================================================
