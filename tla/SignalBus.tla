----------------------------- MODULE SignalBus -----------------------------
(***************************************************************************)
(* SignalCollector of tg-signal-engine (sink.rs, grpc.rs): strategies      *)
(* publish signals, each into a buffer that keeps the newest Capacity and, *)
(* once the buffer's lock is released, to the subscribers; a client asks   *)
(* for the buffer, or subscribes, or both.                                 *)
(***************************************************************************)
EXTENDS BroadcastStream

CONSTANTS
  Strategies,     \* who publishes
  MaxSignals,     \* bound: signals, numbered in the order they are pushed
  Capacity        \* SignalCollector.capacity

VARIABLES
  buffer,         \* SignalCollector.buffer
  sending,        \* per strategy: the signal it has pushed and not sent, or 0
  pushed,         \* history: how many signals were ever in the buffer
  answer          \* per client: what query_signals answered, after subscribing

bus == <<buffer, sending, pushed, answer>>
busVars == <<stream, bus>>

ASSUME BusAssumption == MaxSignals \in Nat /\ Capacity \in Nat \ {0} /\ Ring \in Nat \ {0}

NotAsked == [asked |-> FALSE, signals |-> {}, evicted |-> {}]

BusInit ==
  /\ StreamInit
  /\ buffer = <<>>
  /\ sending = [p \in Strategies |-> 0]
  /\ pushed = 0
  /\ answer = [c \in Clients |-> NotAsked]

Pushed(signal) ==
  Append(IF Len(buffer) = Capacity THEN Tail(buffer) ELSE buffer, signal)

(* publish, under the lock of the buffer *)
Push(p) ==
  /\ sending[p] = 0 /\ pushed < MaxSignals
  /\ pushed' = pushed + 1
  /\ buffer' = Pushed(pushed')
  /\ sending' = [sending EXCEPT ![p] = pushed']
  /\ UNCHANGED <<stream, answer>>

(* Mutant of SendSignal: the newest of the buffer is sent. *)
SendNewest(p) ==
  /\ sending[p] # 0
  /\ Send(Last(buffer))
  /\ sending' = [sending EXCEPT ![p] = 0]
  /\ UNCHANGED <<sub, buffer, pushed, answer>>

(* publish, after the lock: two strategies may come in the other order. *)
SendSignal(p) ==
  /\ sending[p] # 0
  /\ Send(sending[p])
  /\ sending' = [sending EXCEPT ![p] = 0]
  /\ UNCHANGED <<sub, buffer, pushed, answer>>

(* query_signals, for the symbols the client subscribed to; the answer's    *)
(* order, that of ts, is left out.                                          *)
QuerySignals(c) ==
  /\ sub[c].pc # "off" /\ ~answer[c].asked
  /\ answer' = [answer EXCEPT ![c] =
       [asked   |-> TRUE,
        signals |-> {signal \in Range(buffer) : Wants(c, signal)},
        evicted |-> 1..pushed \ Range(buffer)]]
  /\ UNCHANGED <<stream, buffer, sending, pushed>>

BusNext ==
  \/ \E p \in Strategies : Push(p) \/ SendSignal(p)
  \/ \E c \in Clients : QuerySignals(c)
  \/ (\E c \in Clients : ForwarderStep(c) \/ ClientStep(c)) /\ UNCHANGED bus

BusFairness == StreamFairness /\ \A p \in Strategies : WF_busVars(SendSignal(p))

-----------------------------------------------------------------------------
(***************************************************************************)
(* Between history and stream there is no gap: a client that subscribes    *)
(* and then asks for the buffer has in the answer, or will be sent, every  *)
(* signal it wants that had not left the buffer by then.  (publish fills   *)
(* the buffer first; the other way round a signal could be in neither.)    *)
(***************************************************************************)
NoGap ==
  \A c \in Clients : answer[c].asked =>
    \A signal \in 1..pushed \ answer[c].evicted : Wants(c, signal) =>
      \/ signal \in answer[c].signals
      \/ \E p \in Strategies : sending[p] = signal
      \/ \E n \in sub[c].since..Len(sent) : sent[n] = signal

=============================================================================
