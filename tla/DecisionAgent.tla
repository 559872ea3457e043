---------------------------- MODULE DecisionAgent ----------------------------
(***************************************************************************)
(* tg-decision-agent: each call of decide runs through probe, analyst,     *)
(* trader, risk agent, decision log and broadcast, or falls back to Hold   *)
(* (agents.rs, grpc.rs), while a background task probes the language model *)
(* too; both keep the flag of its availability (fallback.rs).  The model   *)
(* is somebody else's: it may be down, and may fail or talk nonsense when  *)
(* it is not.                                                              *)
(*                                                                         *)
(* Quantities are in shares, of which Lot make one that may be traded.     *)
(***************************************************************************)
EXTENDS Sums, Sequences, SequencesExt

CONSTANTS
  Requests,       \* bound: calls of decide
  Symbols,
  Contexts,       \* positions a caller may send: functions from symbols to shares
  Quantities,     \* target quantities the model may answer
  Lot,            \* LOT_SIZE
  MaxSingle,      \* RiskConfig.max_single_name_quantity
  MaxTotal,       \* RiskConfig.max_total_quantity
  Blacklist,      \* RiskConfig.blacklist
  MaxTurns        \* bound: how often the model goes down or comes back

ASSUME AgentAssumption ==
  /\ Quantities \subseteq Nat /\ Lot \in Nat \ {0}
  /\ MaxSingle \in Nat /\ MaxTotal \in Nat /\ MaxTurns \in Nat
  /\ IsFiniteSet(Symbols) /\ Blacklist \subseteq Symbols
  /\ Contexts \subseteq [Symbols -> Nat]

Actions == {"Open", "Add", "Reduce", "Close", "Hold"}

VARIABLES
  llm,            \* whether the model is up
  turns,
  flag,           \* LlmAvailability
  prober,         \* the background task: asleep, or it has an answer to note
  call,           \* per request: where it is, and what it has
  log,            \* the decisions that were saved
  told            \* the decisions that were broadcast, in order

model == <<llm, turns>>
agentVars == <<model, flag, prober, call, log, told>>

NoDraft == [action |-> "Hold", quantity |-> 0]

NotCalled ==
  [pc |-> "off", symbol |-> CHOOSE s \in Symbols : TRUE,
   positions |-> [s \in Symbols |-> 0], decision |-> NoDraft, source |-> "none"]

AgentInit ==
  /\ llm = "up" /\ turns = 0
  /\ flag = TRUE /\ prober = "asleep"
  /\ call = [r \in Requests |-> NotCalled]
  /\ log = {} /\ told = <<>>

-----------------------------------------------------------------------------
(* RiskAgent.apply *)

(* clamp_to_lot *)
ClampToLot(n) == IF n <= 0 THEN 0 ELSE (n \div Lot) * Lot

(* A quantity under a cap of which some is used already. *)
Capped(quantity, cap, used) ==
  LET allowed == IF cap > used THEN cap - used ELSE 0
  IN  IF quantity > allowed THEN ClampToLot(allowed) ELSE quantity

TotalOf(positions) == SumOver(positions, Symbols)

(* Mutant of Risked: the cap on everything is checked against the request. *)
RiskedApart(symbol, positions, draft) ==
  LET single == Capped(draft.quantity, MaxSingle, positions[symbol])
      total  == Capped(draft.quantity, MaxTotal, TotalOf(positions))
  IN  IF symbol \in Blacklist \/ (draft.action \in {"Open", "Add"} /\ total = 0) THEN NoDraft
      ELSE IF draft.action \in {"Open", "Add"} THEN [draft EXCEPT !.quantity = total]
      ELSE draft

Risked(symbol, positions, draft) ==
  LET single == Capped(draft.quantity, MaxSingle, positions[symbol])
      total  == Capped(single, MaxTotal, TotalOf(positions))
  IN  IF symbol \in Blacklist \/ (draft.action \in {"Open", "Add"} /\ total = 0) THEN NoDraft
      ELSE IF draft.action \in {"Open", "Add"} THEN [draft EXCEPT !.quantity = total]
      ELSE draft

(* parse_decision refuses what is not a whole number of lots. *)
Drafts == [action : Actions, quantity : {q \in Quantities : q % Lot = 0}]

-----------------------------------------------------------------------------
(* A call of decide *)

Goes(r, pc) == call' = [call EXCEPT ![r].pc = pc]

(* fallback_hold *)
FallsBack(r) ==
  call' = [call EXCEPT ![r].pc = "save", ![r].decision = NoDraft, ![r].source = "fallback_rule"]

Decide(r, symbol, positions) ==
  /\ call[r].pc = "off"
  /\ call' = [call EXCEPT ![r].pc = "probe", ![r].symbol = symbol, ![r].positions = positions]
  /\ UNCHANGED <<model, flag, prober, log, told>>

(* LlmClient.probe: the answer comes now, the flag follows when the task    *)
(* runs again.                                                              *)
Probe(r) ==
  /\ call[r].pc = "probe"
  /\ (llm = "up" /\ Goes(r, "raise")) \/ Goes(r, "lower")
  /\ UNCHANGED <<model, flag, prober, log, told>>

(* mark_available *)
Raise(r) ==
  /\ call[r].pc = "raise"
  /\ flag' = TRUE /\ Goes(r, "analyze")
  /\ UNCHANGED <<model, prober, log, told>>

(* AnalystAgent.analyze *)
Analyze(r) ==
  /\ call[r].pc = "analyze"
  /\ (llm = "up" /\ Goes(r, "draft")) \/ Goes(r, "lower")
  /\ UNCHANGED <<model, flag, prober, log, told>>

(* mark_unavailable and the fallback *)
Lower(r) ==
  /\ call[r].pc = "lower"
  /\ flag' = FALSE /\ FallsBack(r)
  /\ UNCHANGED <<model, prober, log, told>>

(* TraderAgent.draft_decision, parse_decision and the risk agent; an error  *)
(* leaves the flag alone.                                                   *)
Draft(r) ==
  /\ call[r].pc = "draft"
  /\ \/ /\ llm = "up"
        /\ \E draft \in Drafts :
             call' = [call EXCEPT ![r].pc = "save", ![r].source = "llm",
                        ![r].decision = Risked(call[r].symbol, call[r].positions, draft)]
     \/ FallsBack(r)
  /\ UNCHANGED <<model, flag, prober, log, told>>

(* build_decision and fallback_hold give it an id of its own: the request. *)
DecisionOf(r) ==
  [id |-> r, symbol |-> call[r].symbol, action |-> call[r].decision.action,
   quantity |-> call[r].decision.quantity, source |-> call[r].source]

(* DecisionLogger.save, whose error is that of decide. *)
Save(r) ==
  /\ call[r].pc = "save"
  /\ \/ log' = log \cup {DecisionOf(r)} /\ Goes(r, "tell")
     \/ UNCHANGED log /\ Goes(r, "failed")
  /\ UNCHANGED <<model, flag, prober, told>>

(* The service broadcasts the decision and answers with it. *)
Tell(r) ==
  /\ call[r].pc = "tell"
  /\ told' = Append(told, DecisionOf(r))
  /\ Goes(r, "answered")
  /\ UNCHANGED <<model, flag, prober, log>>

(* The caller hangs up while the call waits, for the log perhaps: nothing   *)
(* of it runs any more.                                                     *)
Abandon(r) ==
  /\ call[r].pc \in {"probe", "analyze", "draft", "save"}
  /\ Goes(r, "gone")
  /\ UNCHANGED log \/ (call[r].pc = "save" /\ log' = log \cup {DecisionOf(r)})
  /\ UNCHANGED <<model, flag, prober, told>>

CallStep(r) ==
  Probe(r) \/ Raise(r) \/ Analyze(r) \/ Lower(r) \/ Draft(r) \/ Save(r) \/ Tell(r)

-----------------------------------------------------------------------------
(* spawn_probe_task: a tick and the request; then the flag, by which time   *)
(* the model may be gone or back.                                           *)
ProberAsks ==
  /\ prober = "asleep"
  /\ prober' = llm
  /\ UNCHANGED <<model, flag, call, log, told>>

(* Mutant of ProberNotes: a successful probe is not noted. *)
ProberOnlyLowers ==
  /\ prober # "asleep"
  /\ flag' = (flag /\ prober = "up")
  /\ prober' = "asleep"
  /\ UNCHANGED <<model, call, log, told>>

ProberNotes ==
  /\ prober # "asleep"
  /\ flag' = (prober = "up")
  /\ prober' = "asleep"
  /\ UNCHANGED <<model, call, log, told>>

Turn ==
  /\ turns < MaxTurns
  /\ turns' = turns + 1
  /\ llm' = IF llm = "up" THEN "down" ELSE "up"
  /\ UNCHANGED <<flag, prober, call, log, told>>

Environment == ProberAsks \/ ProberNotes \/ Turn

AgentFairness ==
  /\ \A r \in Requests : WF_agentVars(CallStep(r))
  /\ WF_agentVars(ProberAsks) /\ WF_agentVars(ProberNotes)

-----------------------------------------------------------------------------
(***************************************************************************)
(* No caller and no subscriber hears of a decision that was not saved, or  *)
(* twice of one, and what a decision buys is allowed: not on the           *)
(* blacklist, in whole lots, and within both caps on top of the positions  *)
(* it was asked with (decide, RiskAgent.apply with its two clamps).        *)
(***************************************************************************)
ToldIsSavedAndAllowed ==
  /\ \A i, j \in DOMAIN told : told[i].id = told[j].id => i = j
  /\ \A i \in DOMAIN told :
       LET d == told[i]
           p == call[d.id].positions
       IN  /\ d \in log
           /\ d.action \in {"Open", "Add"} =>
                /\ d.symbol \notin Blacklist
                /\ d.quantity > 0 /\ d.quantity % Lot = 0
                /\ p[d.symbol] + d.quantity <= MaxSingle
                /\ TotalOf(p) + d.quantity <= MaxTotal

(***************************************************************************)
(* Once the model stays up, or down, the flag says so in the end, although *)
(* a call of decide may lower it late and overtake the background probe    *)
(* (mark_available, mark_unavailable, spawn_probe_task).                   *)
(***************************************************************************)
FlagFollows == <>[](flag = (llm = "up"))

=============================================================================
