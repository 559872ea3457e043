---------------------------- MODULE Agents_proofs ----------------------------
(***************************************************************************)
(* Theorems about signals on their way to decisions, for any symbols,      *)
(* contexts, caps, buffer and ring: what is decided is allowed and saved   *)
(* before anyone hears of it, a client that asks for the history after it  *)
(* has subscribed misses no signal between the two, and one that listens   *)
(* gets all it asked for, in order and once, but what was overwritten; and *)
(* about the ranks of a factor, which rules read before they signal, and   *)
(* the correlation that says what the factor is worth.                     *)
(***************************************************************************)
EXTENDS MCAgents, CrossSection, Sums_proofs, SequenceTheorems

-----------------------------------------------------------------------------
(* Decisions *)

Buys == {"Open", "Add"}

(* What ToldIsSavedAndAllowed says of a decision. *)
Allowed(symbol, positions, d) ==
  d.action \in Buys =>
    /\ symbol \notin Blacklist
    /\ d.quantity > 0 /\ d.quantity % Lot = 0
    /\ positions[symbol] + d.quantity <= MaxSingle
    /\ TotalOf(positions) + d.quantity <= MaxTotal

Decisions == [action : Actions, quantity : Nat]

Calls ==
  [pc : {"off", "probe", "raise", "analyze", "lower", "draft", "save", "tell",
         "answered", "failed", "gone"},
   symbol : Symbols \cup {NotCalled.symbol}, positions : [Symbols -> Nat],
   decision : Decisions, source : {"none", "llm", "fallback_rule"}]

(* What a call may be. *)
Sound(c) ==
  /\ c.pc = "off" => c.decision = NoDraft
  /\ c.pc # "off" => c.symbol \in Symbols
  /\ Allowed(c.symbol, c.positions, c.decision)

(* DecisionOf(r), of any state of the call. *)
Decided(r, c) ==
  [id |-> r, symbol |-> c.symbol, action |-> c.decision.action,
   quantity |-> c.decision.quantity, source |-> c.source]

TypeOfTold ==
  [id : Requests, symbol : Symbols, action : Actions, quantity : Nat,
   source : {"none", "llm", "fallback_rule"}]

(* What is told is the saved decision of a call that has been answered. *)
ToldOnce ==
  /\ told \in Seq(TypeOfTold)
  /\ \A i \in DOMAIN told :
       LET r == told[i].id
       IN  call[r].pc = "answered" /\ told[i] = Decided(r, call[r]) /\ told[i] \in log
  /\ \A i, j \in DOMAIN told : told[i].id = told[j].id => i = j

AgentInv ==
  /\ call \in [Requests -> Calls]
  /\ \A r \in Requests : Sound(call[r])
  /\ \A r \in Requests : call[r].pc = "tell" => Decided(r, call[r]) \in log
  /\ ToldOnce

LEMMA ClampBounds ==
  ASSUME NEW n \in Nat
  PROVE  ClampToLot(n) \in Nat /\ ClampToLot(n) <= n /\ ClampToLot(n) % Lot = 0
<1>1. Lot \in Nat \ {0}
  BY AgentAssumption
<1> DEFINE k == n \div Lot
<1>2. k \in Nat /\ k * Lot <= n
  BY <1>1
<1>3. k * Lot \in Nat
  BY <1>1, <1>2
<1>4. (k * Lot) % Lot = 0
  BY <1>1, <1>2, <1>3
<1>5. 0 % Lot = 0
  BY <1>1
<1>6. QED
  BY <1>2, <1>3, <1>4, <1>5 DEF ClampToLot

(* A capped quantity fits under the cap, or is nothing. *)
LEMMA CappedBounds ==
  ASSUME NEW q \in Nat, q % Lot = 0, NEW cap \in Nat, NEW used \in Nat
  PROVE  /\ Capped(q, cap, used) \in Nat /\ Capped(q, cap, used) <= q
         /\ Capped(q, cap, used) % Lot = 0
         /\ Capped(q, cap, used) > 0 => used + Capped(q, cap, used) <= cap
<1> DEFINE allowed == IF cap > used THEN cap - used ELSE 0
<1>1. allowed \in Nat /\ (allowed > 0 => used + allowed <= cap)
  OBVIOUS
<1>2. /\ ClampToLot(allowed) \in Nat /\ ClampToLot(allowed) <= allowed
      /\ ClampToLot(allowed) % Lot = 0
  BY <1>1, ClampBounds
<1>3. Capped(q, cap, used) = IF q > allowed THEN ClampToLot(allowed) ELSE q
  BY DEF Capped
<1> HIDE DEF allowed
<1>4. QED
  BY <1>1, <1>2, <1>3

LEMMA TotalType ==
  ASSUME NEW positions \in [Symbols -> Nat] PROVE TotalOf(positions) \in Nat
BY AgentAssumption, SumType DEF TotalOf

LEMMA RiskedAllowed ==
  ASSUME NEW symbol \in Symbols, NEW positions \in [Symbols -> Nat], NEW draft \in Drafts
  PROVE  /\ Risked(symbol, positions, draft) \in Decisions
         /\ Allowed(symbol, positions, Risked(symbol, positions, draft))
<1> DEFINE single == Capped(draft.quantity, MaxSingle, positions[symbol])
           total  == Capped(single, MaxTotal, TotalOf(positions))
<1>1. /\ draft \in Decisions /\ draft.quantity \in Nat /\ draft.quantity % Lot = 0
      /\ MaxSingle \in Nat /\ MaxTotal \in Nat
  BY AgentAssumption DEF Drafts, Decisions
<1>2. positions[symbol] \in Nat /\ TotalOf(positions) \in Nat
  BY TotalType
<1>3. /\ single \in Nat /\ single % Lot = 0
      /\ single > 0 => positions[symbol] + single <= MaxSingle
  BY <1>1, <1>2, CappedBounds
<1>4. /\ total \in Nat /\ total <= single /\ total % Lot = 0
      /\ total > 0 => TotalOf(positions) + total <= MaxTotal
  BY <1>1, <1>2, <1>3, CappedBounds
<1> HIDE DEF single, total
<1>5. total > 0 => positions[symbol] + total <= MaxSingle
  BY <1>1, <1>2, <1>3, <1>4
<1>6. Risked(symbol, positions, draft) =
        IF symbol \in Blacklist \/ (draft.action \in Buys /\ total = 0) THEN NoDraft
        ELSE IF draft.action \in Buys THEN [draft EXCEPT !.quantity = total]
        ELSE draft
  BY DEF Risked, Buys, single, total
<1>7. NoDraft \in Decisions /\ Allowed(symbol, positions, NoDraft)
  BY DEF NoDraft, Decisions, Actions, Allowed, Buys
<1>8. CASE symbol \in Blacklist \/ (draft.action \in Buys /\ total = 0)
  BY <1>6, <1>7, <1>8
<1>9. CASE symbol \notin Blacklist /\ draft.action \in Buys /\ total # 0
  <2> DEFINE d == [draft EXCEPT !.quantity = total]
  <2>1. d \in Decisions /\ d.action = draft.action /\ d.quantity = total
    BY <1>1, <1>4 DEF Decisions
  <2>2. Risked(symbol, positions, draft) = d
    BY <1>6, <1>9
  <2> HIDE DEF d
  <2>3. total > 0
    BY <1>4, <1>9
  <2>4. QED
    BY <1>4, <1>5, <1>9, <2>1, <2>2, <2>3 DEF Allowed
<1>10. CASE symbol \notin Blacklist /\ draft.action \notin Buys
  BY <1>1, <1>6, <1>10 DEF Allowed
<1>11. QED
  BY <1>8, <1>9, <1>10

LEMMA AgentInitInv == AgentInit => AgentInv
<1> SUFFICES ASSUME AgentInit PROVE AgentInv
  OBVIOUS
<1>1. NotCalled \in Calls /\ NotCalled.pc = "off" /\ NotCalled.decision = NoDraft
  BY DEF NotCalled, Calls, Decisions, NoDraft, Actions
<1>2. Sound(NotCalled)
  BY <1>1 DEF Sound, Allowed, NoDraft, Buys
<1>3. call = [r \in Requests |-> NotCalled] /\ told = <<>>
  BY DEF AgentInit
<1>4. ToldOnce
  BY <1>3 DEF ToldOnce
<1>5. QED
  BY <1>1, <1>2, <1>3, <1>4 DEF AgentInv

(* A step of a call that tells nobody. *)
LEMMA CallMoves ==
  ASSUME AgentInv, NEW r \in Requests, call[r].pc # "answered",
         call' \in [Requests -> Calls],
         \A q \in Requests : q # r => call'[q] = call[q],
         log \subseteq log', told' = told,
         Sound(call'[r]), call'[r].pc = "tell" => Decided(r, call'[r]) \in log'
  PROVE  AgentInv'
<1>1. \A q \in Requests : Sound(call'[q])
  BY DEF AgentInv
<1>2. \A q \in Requests : call'[q].pc = "tell" => Decided(q, call'[q]) \in log'
  BY DEF AgentInv
<1>3. \A i \in DOMAIN told : told[i].id \in Requests /\ told[i].id # r
  <2>1. \A i \in DOMAIN told : told[i] \in TypeOfTold /\ call[told[i].id].pc = "answered"
    BY DEF AgentInv, ToldOnce
  <2>2. QED
    BY <2>1 DEF TypeOfTold
<1>4. ToldOnce'
  BY <1>3 DEF AgentInv, ToldOnce
<1>5. QED
  BY <1>1, <1>2, <1>4 DEF AgentInv

(* Steps that leave the calls alone. *)
LEMMA AgentStutters ==
  ASSUME AgentInv, UNCHANGED <<call, log, told>> PROVE AgentInv'
BY DEF AgentInv, ToldOnce

LEMMA GoesOn ==
  ASSUME AgentInv, NEW r \in Requests, NEW pc, Goes(r, pc),
         pc \in {"raise", "analyze", "lower", "draft", "tell", "failed", "gone"},
         call[r].pc \notin {"off", "answered"},
         log \subseteq log', told' = told, pc = "tell" => DecisionOf(r) \in log'
  PROVE  AgentInv'
<1>1. call[r] \in Calls /\ Sound(call[r])
  BY DEF AgentInv
<1>2. call' = [call EXCEPT ![r] = [call[r] EXCEPT !.pc = pc]]
  BY DEF Goes
<1> DEFINE c == [call[r] EXCEPT !.pc = pc]
<1>3. /\ c \in Calls /\ c.pc = pc /\ c.symbol = call[r].symbol
      /\ c.positions = call[r].positions /\ c.decision = call[r].decision
      /\ c.source = call[r].source
  BY <1>1 DEF Calls
<1>4. Sound(c) /\ Decided(r, c) = DecisionOf(r)
  BY <1>1, <1>3 DEF Sound, Decided, DecisionOf
<1> HIDE DEF c
<1>5. /\ call' \in [Requests -> Calls] /\ call'[r] = c
      /\ \A q \in Requests : q # r => call'[q] = call[q]
  BY <1>2, <1>3 DEF AgentInv, c
<1>6. QED
  BY <1>3, <1>4, <1>5, CallMoves

LEMMA FallsBackMoves ==
  ASSUME AgentInv, NEW r \in Requests, FallsBack(r),
         call[r].pc \notin {"off", "answered"}, UNCHANGED <<log, told>>
  PROVE  AgentInv'
<1>1. NoDraft \in Decisions
  BY DEF NoDraft, Decisions, Actions
<1>2. call[r] \in Calls /\ Sound(call[r])
  BY DEF AgentInv
<1> DEFINE c == [call[r] EXCEPT !.pc = "save", !.decision = NoDraft, !.source = "fallback_rule"]
<1>3. /\ c \in Calls /\ c.pc = "save" /\ c.symbol = call[r].symbol
      /\ c.decision = NoDraft
  BY <1>1, <1>2 DEF Calls
<1>4. Sound(c)
  BY <1>2, <1>3 DEF Sound, Allowed, NoDraft, Buys
<1>5. call' = [call EXCEPT ![r] = c]
  BY DEF FallsBack
<1> HIDE DEF c
<1>6. /\ call' \in [Requests -> Calls] /\ call'[r] = c
      /\ \A q \in Requests : q # r => call'[q] = call[q]
  BY <1>3, <1>5 DEF AgentInv
<1>7. QED
  BY <1>3, <1>4, <1>6, CallMoves

LEMMA DecideMoves ==
  ASSUME AgentInv, NEW r \in Requests, NEW symbol \in Symbols, NEW positions \in Contexts,
         Decide(r, symbol, positions)
  PROVE  AgentInv'
<1>1. positions \in [Symbols -> Nat]
  BY AgentAssumption
<1>2. call[r].pc = "off" /\ UNCHANGED <<log, told>> /\ call[r] \in Calls /\ Sound(call[r])
  BY DEF AgentInv, Decide
<1> DEFINE c == [call[r] EXCEPT !.pc = "probe", !.symbol = symbol, !.positions = positions]
<1>3. c \in Calls /\ c.pc = "probe" /\ c.symbol = symbol /\ c.decision = NoDraft
  BY <1>1, <1>2 DEF Calls, Sound
<1>4. Sound(c)
  BY <1>3 DEF Sound, Allowed, NoDraft, Buys
<1>5. call' = [call EXCEPT ![r] = c]
  BY DEF Decide
<1> HIDE DEF c
<1>6. /\ call' \in [Requests -> Calls] /\ call'[r] = c
      /\ \A q \in Requests : q # r => call'[q] = call[q]
  BY <1>3, <1>5 DEF AgentInv
<1>7. QED
  BY <1>2, <1>3, <1>4, <1>6, CallMoves

LEMMA DraftMoves ==
  ASSUME AgentInv, NEW r \in Requests, Draft(r)
  PROVE  AgentInv'
<1>1. call[r].pc = "draft" /\ UNCHANGED <<log, told>> /\ call[r] \in Calls /\ Sound(call[r])
  BY DEF AgentInv, Draft
<1>2. CASE FallsBack(r)
  BY <1>1, <1>2, FallsBackMoves
<1>3. ASSUME NEW draft \in Drafts,
             call' = [call EXCEPT ![r].pc = "save", ![r].source = "llm",
                        ![r].decision = Risked(call[r].symbol, call[r].positions, draft)]
      PROVE  AgentInv'
  <2> DEFINE d == Risked(call[r].symbol, call[r].positions, draft)
             c == [call[r] EXCEPT !.pc = "save", !.source = "llm", !.decision = d]
  <2>1. call[r].symbol \in Symbols /\ call[r].positions \in [Symbols -> Nat]
    BY <1>1 DEF Sound, Calls
  <2>2. d \in Decisions /\ Allowed(call[r].symbol, call[r].positions, d)
    BY <2>1, RiskedAllowed
  <2>3. call' = [call EXCEPT ![r] = c]
    BY <1>3
  <2> HIDE DEF d
  <2>4. /\ c \in Calls /\ c.pc = "save" /\ c.symbol = call[r].symbol
        /\ c.positions = call[r].positions /\ c.decision = d
    BY <1>1, <2>2 DEF Calls
  <2>5. Sound(c)
    BY <2>1, <2>2, <2>4 DEF Sound
  <2> HIDE DEF c
  <2>6. /\ call' \in [Requests -> Calls] /\ call'[r] = c
        /\ \A q \in Requests : q # r => call'[q] = call[q]
    BY <2>3, <2>4 DEF AgentInv
  <2>7. QED
    BY <1>1, <2>4, <2>5, <2>6, CallMoves
<1>4. QED
  BY <1>2, <1>3 DEF Draft

LEMMA TellMoves ==
  ASSUME AgentInv, NEW r \in Requests, Tell(r)
  PROVE  AgentInv'
<1> DEFINE d == Decided(r, call[r])
           c == [call[r] EXCEPT !.pc = "answered"]
<1>1. /\ call[r].pc = "tell" /\ log' = log /\ call[r] \in Calls /\ Sound(call[r])
      /\ d \in log /\ told \in Seq(TypeOfTold)
  BY DEF AgentInv, ToldOnce, Tell
<1>2. told' = Append(told, d) /\ call' = [call EXCEPT ![r] = c]
  BY DEF Tell, Goes, DecisionOf, Decided
<1>3. d.id = r /\ d \in TypeOfTold
  BY <1>1 DEF Decided, TypeOfTold, Calls, Decisions, Sound
<1>4. c \in Calls /\ c.pc = "answered" /\ Sound(c) /\ Decided(r, c) = d
  BY <1>1 DEF Calls, Sound, Decided
<1> HIDE DEF c, d
<1>5. /\ call' \in [Requests -> Calls] /\ call'[r] = c
      /\ \A q \in Requests : q # r => call'[q] = call[q]
  BY <1>2, <1>4 DEF AgentInv
<1>6. \A i \in DOMAIN told : told[i].id \in Requests /\ told[i].id # r
  <2>1. \A i \in DOMAIN told : told[i] \in TypeOfTold /\ call[told[i].id].pc = "answered"
    BY DEF AgentInv, ToldOnce
  <2>2. QED
    BY <1>1, <2>1 DEF TypeOfTold
<1>7. /\ DOMAIN told' = DOMAIN told \cup {Len(told) + 1} /\ Len(told) + 1 \notin DOMAIN told
      /\ \A i \in DOMAIN told : told'[i] = told[i]
      /\ told'[Len(told) + 1] = d /\ told' \in Seq(TypeOfTold)
  BY <1>1, <1>2, <1>3
<1>8. ToldOnce'
  <2>1. ASSUME NEW i \in DOMAIN told'
        PROVE  /\ call'[told'[i].id].pc = "answered" /\ told'[i] \in log'
               /\ told'[i] = Decided(told'[i].id, call'[told'[i].id])
    <3>1. CASE i \in DOMAIN told
      BY <1>1, <1>5, <1>6, <1>7, <3>1 DEF AgentInv, ToldOnce
    <3>2. CASE i = Len(told) + 1
      BY <1>1, <1>3, <1>4, <1>5, <1>7, <3>2
    <3>3. QED
      BY <1>7, <2>1, <3>1, <3>2
  <2>2. \A i, j \in DOMAIN told' : told'[i].id = told'[j].id => i = j
    BY <1>3, <1>6, <1>7 DEF AgentInv, ToldOnce
  <2>3. QED
    BY <1>7, <2>1, <2>2 DEF ToldOnce
<1>9. \A q \in Requests : Sound(call'[q]) /\ (call'[q].pc # "tell" \/ Decided(q, call'[q]) \in log')
  BY <1>1, <1>4, <1>5 DEF AgentInv
<1>10. QED
  BY <1>5, <1>8, <1>9 DEF AgentInv

LEMMA CallStepKeeps ==
  ASSUME AgentInv, NEW r \in Requests, CallStep(r) \/ Abandon(r)
  PROVE  AgentInv'
<1>1. CASE Probe(r)
  BY <1>1, GoesOn DEF Probe
<1>2. CASE Raise(r)
  BY <1>2, GoesOn DEF Raise
<1>3. CASE Analyze(r)
  BY <1>3, GoesOn DEF Analyze
<1>4. CASE Lower(r)
  BY <1>4, FallsBackMoves DEF Lower
<1>5. CASE Draft(r)
  BY <1>5, DraftMoves
<1>6. CASE Save(r)
  BY <1>6, GoesOn DEF Save
<1>7. CASE Tell(r)
  BY <1>7, TellMoves
<1>8. CASE Abandon(r)
  BY <1>8, GoesOn DEF Abandon
<1>9. QED
  BY <1>1, <1>2, <1>3, <1>4, <1>5, <1>6, <1>7, <1>8 DEF CallStep

LEMMA AgentNextInv == AgentInv /\ [Next]_vars => AgentInv'
<1> SUFFICES ASSUME AgentInv, [Next]_vars PROVE AgentInv'
  OBVIOUS
<1>1. CASE UNCHANGED agentVars
  BY <1>1, AgentStutters DEF agentVars
<1>2. ASSUME NEW r \in Requests, AskAbout(r) PROVE AgentInv'
  BY <1>2, DecideMoves DEF AskAbout
<1>3. ASSUME NEW r \in Requests, CallStep(r) \/ Abandon(r) PROVE AgentInv'
  BY <1>3, CallStepKeeps
<1>4. CASE Environment
  BY <1>4, AgentStutters DEF Environment, ProberAsks, ProberNotes, Turn
<1>5. QED
  BY <1>1, <1>2, <1>3, <1>4 DEF Next, vars

LEMMA AgentInvSuffices == AgentInv => ToldIsSavedAndAllowed
<1> SUFFICES ASSUME AgentInv PROVE ToldIsSavedAndAllowed
  OBVIOUS
<1>1. ASSUME NEW i \in DOMAIN told
      PROVE  /\ told[i] \in log
             /\ Allowed(told[i].symbol, call[told[i].id].positions, told[i])
  <2> DEFINE r == told[i].id
  <2>1. told[i] \in TypeOfTold /\ told[i] = Decided(r, call[r]) /\ told[i] \in log
    BY DEF AgentInv, ToldOnce
  <2>2. r \in Requests
    BY <2>1 DEF TypeOfTold
  <2>3. Sound(call[r])
    BY <2>2 DEF AgentInv
  <2> HIDE DEF r
  <2>4. /\ told[i].symbol = call[r].symbol
        /\ told[i].action = call[r].decision.action
        /\ told[i].quantity = call[r].decision.quantity
    BY <2>1 DEF Decided
  <2>5. QED
    BY <2>1, <2>3, <2>4 DEF Sound, Allowed, r
<1>2. QED
  BY <1>1 DEF AgentInv, ToldOnce, ToldIsSavedAndAllowed, Allowed, Buys

(***************************************************************************)
(* No decision is told before it is saved, or twice, and none that buys    *)
(* breaks the blacklist, the lot or a cap, whatever the model answers and  *)
(* however many calls run at once (decide, RiskAgent.apply).               *)
(***************************************************************************)
THEOREM DecisionsAllowed == Spec => []ToldIsSavedAndAllowed
<1>1. Init => AgentInv
  BY AgentInitInv DEF Init
<1>2. Spec => []AgentInv
  BY <1>1, AgentNextInv, PTL DEF Spec
<1>3. QED
  BY <1>2, AgentInvSuffices, PTL

-----------------------------------------------------------------------------
(* History and stream *)

Streams ==
  [pc : {"off", "recv", "send", "gone"}, since : Nat \ {0}, next : Nat, held : Nat,
   room : Seq(Nat), open : BOOLEAN, got : Seq(Nat), skipped : SUBSET Nat]

(* What a client was answered, it finds again: NoGap for one client. *)
NoGapFor(c) ==
  answer[c].asked =>
    \A signal \in 1..pushed \ answer[c].evicted : Wants(c, signal) =>
      \/ signal \in answer[c].signals
      \/ \E p \in Strategies : sending[p] = signal
      \/ \E n \in sub[c].since..Len(sent) : sent[n] = signal

(* Only who has subscribed has asked, and a receiver begins no later than   *)
(* behind the last item: what is sent from now on it is sent too.           *)
BusInv ==
  /\ pushed \in Nat /\ sending \in [Strategies -> Nat] /\ sent \in Seq(Nat)
  /\ sub \in [Clients -> Streams]
  /\ answer \in [Clients -> [asked : BOOLEAN, signals : SUBSET Nat, evicted : SUBSET Nat]]
  /\ buffer \in Seq(Nat)
  /\ \A c \in Clients : sub[c].since <= Len(sent) + 1
  /\ \A c \in Clients : answer[c].asked \/ sub[c].open => sub[c].pc # "off"
  /\ \A c \in Clients : NoGapFor(c)

LEMMA BusInitInv == BusInit => BusInv
<1> SUFFICES ASSUME BusInit PROVE BusInv
  OBVIOUS
<1>1. NotSubscribed \in Streams /\ NotSubscribed.since = 1 /\ ~NotSubscribed.open
  BY DEF NotSubscribed, Streams
<1>2. sent = <<>> /\ Len(sent) = 0 /\ sub = [c \in Clients |-> NotSubscribed]
  BY DEF BusInit, StreamInit
<1>3. /\ pushed = 0 /\ buffer = <<>> /\ sending = [p \in Strategies |-> 0]
      /\ answer = [c \in Clients |-> NotAsked]
  BY DEF BusInit
<1>4. NotAsked \in [asked : BOOLEAN, signals : SUBSET Nat, evicted : SUBSET Nat] /\ ~NotAsked.asked
  BY DEF NotAsked
<1>5. \A c \in Clients : NoGapFor(c)
  BY <1>3, <1>4 DEF NoGapFor
<1>6. QED
  BY <1>1, <1>2, <1>3, <1>4, <1>5 DEF BusInv

LEMMA PushKeeps ==
  ASSUME BusInv, NEW p \in Strategies, Push(p)
  PROVE  BusInv'
<1>1. /\ sending[p] = 0 /\ pushed' = pushed + 1 /\ buffer' = Pushed(pushed')
      /\ sending' = [sending EXCEPT ![p] = pushed'] /\ UNCHANGED <<sent, sub, answer>>
  BY DEF Push, stream
<1>2. pushed' \in Nat /\ sending' \in [Strategies -> Nat]
  BY <1>1 DEF BusInv
<1>3. buffer' \in Seq(Nat)
  <2>1. Capacity \in Nat \ {0} /\ buffer \in Seq(Nat)
    BY BusAssumption DEF BusInv
  <2>2. Len(buffer) = Capacity => Tail(buffer) \in Seq(Nat)
    BY <2>1
  <2>3. QED
    BY <1>1, <1>2, <2>1, <2>2 DEF Pushed
<1>4. ASSUME NEW c \in Clients, answer[c].asked, NEW signal \in 1..pushed' \ answer[c].evicted,
             Wants(c, signal)
      PROVE  \/ signal \in answer[c].signals
             \/ \E q \in Strategies : sending'[q] = signal
             \/ \E n \in sub[c].since..Len(sent) : sent[n] = signal
  <2>1. CASE signal = pushed'
    BY <1>1, <2>1 DEF BusInv
  <2>2. CASE signal # pushed'
    <3>1. signal \in 1..pushed \ answer[c].evicted
      BY <1>1, <2>2 DEF BusInv
    <3>2. \/ signal \in answer[c].signals
          \/ \E q \in Strategies : sending[q] = signal
          \/ \E n \in sub[c].since..Len(sent) : sent[n] = signal
      BY <1>4, <3>1 DEF BusInv, NoGapFor
    <3>3. \A q \in Strategies : sending[q] = signal => sending'[q] = signal
      BY <1>1, <3>1 DEF BusInv
    <3>4. QED
      BY <3>2, <3>3
  <2>3. QED
    BY <2>1, <2>2
<1>5. \A c \in Clients : NoGapFor(c)'
  BY <1>1, <1>4 DEF NoGapFor
<1>6. QED
  BY <1>1, <1>2, <1>3, <1>5 DEF BusInv

LEMMA SendKeeps ==
  ASSUME BusInv, NEW p \in Strategies, SendSignal(p)
  PROVE  BusInv'
<1>1. /\ sent' = Append(sent, sending[p]) /\ sending' = [sending EXCEPT ![p] = 0]
      /\ UNCHANGED <<sub, buffer, pushed, answer>>
  BY DEF SendSignal, Send
<1>2. /\ sending[p] \in Nat /\ sent' \in Seq(Nat) /\ Len(sent') = Len(sent) + 1
      /\ Len(sent) \in Nat /\ sent'[Len(sent) + 1] = sending[p]
      /\ \A n \in 1..Len(sent) : sent'[n] = sent[n]
  BY <1>1 DEF BusInv
<1>3. sending' \in [Strategies -> Nat]
  BY <1>1 DEF BusInv
<1>4. \A c \in Clients : sub[c].since \in Nat \ {0} /\ sub[c].since <= Len(sent) + 1
  BY DEF BusInv, Streams
<1>5. ASSUME NEW c \in Clients, answer[c].asked, NEW signal \in 1..pushed \ answer[c].evicted,
             Wants(c, signal)
      PROVE  \/ signal \in answer[c].signals
             \/ \E q \in Strategies : sending'[q] = signal
             \/ \E n \in sub[c].since..Len(sent') : sent'[n] = signal
  <2>1. \/ signal \in answer[c].signals
        \/ \E q \in Strategies : sending[q] = signal
        \/ \E n \in sub[c].since..Len(sent) : sent[n] = signal
    BY <1>5 DEF BusInv, NoGapFor
  <2>2. CASE sending[p] = signal
    BY <1>2, <1>4, <2>2
  <2>3. ASSUME NEW q \in Strategies, q # p, sending[q] = signal PROVE sending'[q] = signal
    BY <1>1, <2>3 DEF BusInv
  <2>4. ASSUME NEW n \in sub[c].since..Len(sent), sent[n] = signal
        PROVE  n \in sub[c].since..Len(sent') /\ sent'[n] = signal
    BY <1>2, <1>4, <2>4
  <2>5. QED
    BY <2>1, <2>2, <2>3, <2>4
<1>6. \A c \in Clients : NoGapFor(c)'
  BY <1>1, <1>5 DEF NoGapFor
<1>7. \A c \in Clients : sub'[c].since <= Len(sent') + 1
  BY <1>1, <1>2, <1>4
<1>8. QED
  BY <1>1, <1>2, <1>3, <1>6, <1>7 DEF BusInv

LEMMA QueryKeeps ==
  ASSUME BusInv, NEW c \in Clients, QuerySignals(c)
  PROVE  BusInv'
<1> DEFINE a == [asked |-> TRUE, signals |-> {signal \in Range(buffer) : Wants(c, signal)},
                 evicted |-> 1..pushed \ Range(buffer)]
<1>1. /\ sub[c].pc # "off" /\ answer' = [answer EXCEPT ![c] = a]
      /\ UNCHANGED <<sent, sub, buffer, sending, pushed>>
  BY DEF QuerySignals, stream
<1>2. Range(buffer) \subseteq Nat /\ pushed \in Nat
  BY DEF BusInv, Range
<1>3. /\ a \in [asked : BOOLEAN, signals : SUBSET Nat, evicted : SUBSET Nat]
      /\ \A signal \in 1..pushed \ a.evicted : Wants(c, signal) => signal \in a.signals
  BY <1>2
<1> HIDE DEF a
<1>4. /\ answer' \in [Clients -> [asked : BOOLEAN, signals : SUBSET Nat, evicted : SUBSET Nat]]
      /\ answer'[c] = a /\ \A b \in Clients : b # c => answer'[b] = answer[b]
  BY <1>1, <1>3 DEF BusInv
<1>5. ASSUME NEW b \in Clients PROVE NoGapFor(b)'
  <2>1. CASE b = c
    BY <1>1, <1>3, <1>4, <2>1 DEF NoGapFor
  <2>2. CASE b # c
    <3>1. NoGapFor(b)
      BY DEF BusInv
    <3>2. QED
      BY <1>1, <1>4, <2>2, <3>1 DEF NoGapFor
  <2>3. QED
    BY <2>1, <2>2
<1>6. QED
  BY <1>1, <1>4, <1>5 DEF BusInv

(* A step of a client or its task: what it was sent from on does not        *)
(* change, but in the step in which it subscribes.                          *)
LEMMA StreamKeeps ==
  ASSUME BusInv, NEW c \in Clients, NEW s \in Streams,
         sub' = [sub EXCEPT ![c] = s], UNCHANGED sent, UNCHANGED bus,
         s.pc # "off", s.since <= Len(sent) + 1,
         sub[c].pc = "off" \/ s.since = sub[c].since
  PROVE  BusInv'
<1>1. /\ sub' \in [Clients -> Streams] /\ sub'[c] = s
      /\ \A b \in Clients : b # c => sub'[b] = sub[b]
  BY DEF BusInv
<1>2. UNCHANGED <<sent, buffer, sending, pushed, answer>>
  BY DEF bus
<1>3. ASSUME NEW b \in Clients PROVE NoGapFor(b)'
  <2>1. NoGapFor(b)
    BY DEF BusInv
  <2>2. CASE sub'[b].since = sub[b].since
    BY <1>2, <2>1, <2>2 DEF NoGapFor
  <2>3. CASE b = c /\ sub[c].pc = "off"
    BY <1>2, <2>3 DEF BusInv, NoGapFor
  <2>4. QED
    BY <1>1, <2>2, <2>3
<1>4. QED
  BY <1>1, <1>2, <1>3 DEF BusInv

LEMMA OldestType ==
  ASSUME BusInv PROVE Oldest \in Nat /\ Len(sent) \in Nat
<1>1. Len(sent) \in Nat /\ Ring \in Nat
  BY BusAssumption DEF BusInv
<1>2. QED
  BY <1>1 DEF Oldest

LEMMA ForwarderKeeps ==
  ASSUME BusInv, NEW c \in Clients, ForwarderStep(c), UNCHANGED bus
  PROVE  BusInv'
<1>1. sub[c] \in Streams /\ sub[c].since <= Len(sent) + 1
  BY DEF BusInv
<1>2. CASE Lagged(c)
  <2> DEFINE s == [sub[c] EXCEPT !.next = Oldest,
                                 !.skipped = @ \cup sub[c].next..(Oldest - 1)]
  <2>1. sub[c].next..(Oldest - 1) \in SUBSET Nat
    BY <1>1, OldestType DEF Streams
  <2>2. s \in Streams /\ s.pc = sub[c].pc /\ s.since = sub[c].since
    BY <1>1, <2>1, OldestType DEF Streams
  <2>3. sub' = [sub EXCEPT ![c] = s] /\ UNCHANGED sent /\ sub[c].pc = "recv"
    BY <1>2 DEF Lagged
  <2> HIDE DEF s
  <2>4. QED
    BY <1>1, <2>2, <2>3, StreamKeeps
<1>3. CASE Receive(c)
  <2> DEFINE n == sub[c].next
             m == n + 1
             s == [sub[c] EXCEPT !.next = m, !.held = n, !.pc = "send"]
             t == [sub[c] EXCEPT !.next = m]
  <2>1. n \in Nat /\ m \in Nat
    BY <1>1 DEF Streams
  <2> HIDE DEF m
  <2>2. t \in Streams /\ t.pc = sub[c].pc /\ t.since = sub[c].since
    BY <1>1, <2>1 DEF Streams
  <2> HIDE DEF n
  <2>3. s = [t EXCEPT !.held = n, !.pc = "send"] /\ n \in Nat
    BY <2>1
  <2> HIDE DEF t
  <2>4. s \in Streams /\ s.pc = "send" /\ s.since = t.since
    BY <2>2, <2>3 DEF Streams
  <2>5. /\ sub' = [sub EXCEPT ![c] = s] \/ sub' = [sub EXCEPT ![c] = t]
        /\ UNCHANGED sent /\ sub[c].pc = "recv"
    BY <1>3 DEF Receive, n, m, t
  <2> HIDE DEF s
  <2>6. QED
    BY <1>1, <2>2, <2>4, <2>5, StreamKeeps
<1>4. CASE Forward(c)
  <2> DEFINE room == Append(sub[c].room, sub[c].held)
             s    == [sub[c] EXCEPT !.room = room, !.held = 0, !.pc = "recv"]
  <2>1. room \in Seq(Nat)
    BY <1>1 DEF Streams
  <2>2. sub' = [sub EXCEPT ![c] = s] /\ UNCHANGED sent
    BY <1>4 DEF Forward
  <2> HIDE DEF room
  <2>3. s \in Streams /\ s.pc = "recv" /\ s.since = sub[c].since
    BY <1>1, <2>1 DEF Streams
  <2> HIDE DEF s
  <2>4. QED
    BY <1>1, <2>2, <2>3, StreamKeeps
<1>5. CASE ForwardFails(c)
  <2> DEFINE s == [sub[c] EXCEPT !.held = 0, !.pc = "gone"]
  <2>1. s \in Streams /\ s.pc = "gone" /\ s.since = sub[c].since
    BY <1>1 DEF Streams
  <2>2. sub' = [sub EXCEPT ![c] = s] /\ UNCHANGED sent
    BY <1>5 DEF ForwardFails
  <2> HIDE DEF s
  <2>3. QED
    BY <1>1, <2>1, <2>2, StreamKeeps
<1>6. QED
  BY <1>2, <1>3, <1>4, <1>5 DEF ForwarderStep

LEMMA ClientKeeps ==
  ASSUME BusInv, NEW c \in Clients, ClientStep(c), UNCHANGED bus
  PROVE  BusInv'
<1>1. sub[c] \in Streams /\ sub[c].since <= Len(sent) + 1 /\ Len(sent) \in Nat
  BY DEF BusInv
<1>2. CASE Subscribe(c)
  <2> DEFINE k == Len(sent) + 1
             s == [NotSubscribed EXCEPT !.pc = "recv", !.open = TRUE, !.since = k, !.next = k]
  <2>1. k \in Nat \ {0}
    BY <1>1
  <2>2. NotSubscribed \in Streams
    BY DEF NotSubscribed, Streams
  <2>3. sub' = [sub EXCEPT ![c] = s] /\ UNCHANGED sent /\ sub[c].pc = "off"
    BY <1>2 DEF Subscribe
  <2> HIDE DEF k
  <2>4. s \in Streams /\ s.pc = "recv" /\ s.since = k
    BY <2>1, <2>2 DEF Streams
  <2> HIDE DEF s
  <2>5. s.since <= Len(sent) + 1 /\ s.pc # "off"
    BY <1>1, <2>4 DEF k
  <2>6. QED
    BY <2>3, <2>4, <2>5, StreamKeeps
<1>3. CASE Read(c)
  <2> DEFINE s == [sub[c] EXCEPT !.got = Append(@, Head(sub[c].room)), !.room = Tail(@)]
  <2>1. sub[c].room \in Seq(Nat) /\ sub[c].got \in Seq(Nat) /\ sub[c].room # <<>>
    BY <1>1, <1>3 DEF Streams, Read
  <2>2. Append(sub[c].got, Head(sub[c].room)) \in Seq(Nat) /\ Tail(sub[c].room) \in Seq(Nat)
    BY <2>1
  <2>3. s \in Streams /\ s.pc = sub[c].pc /\ s.since = sub[c].since
    BY <1>1, <2>2 DEF Streams
  <2>4. sub' = [sub EXCEPT ![c] = s] /\ UNCHANGED sent /\ sub[c].pc # "off"
    BY <1>3 DEF Read, BusInv
  <2> HIDE DEF s
  <2>5. QED
    BY <1>1, <2>3, <2>4, StreamKeeps
<1>4. CASE HangUp(c)
  <2> DEFINE e == <<>>
             s == [sub[c] EXCEPT !.open = FALSE, !.room = e]
  <2>1. e \in Seq(Nat)
    OBVIOUS
  <2> HIDE DEF e
  <2>2. s \in Streams /\ s.pc = sub[c].pc /\ s.since = sub[c].since
    BY <1>1, <2>1 DEF Streams
  <2>3. sub' = [sub EXCEPT ![c] = s] /\ UNCHANGED sent /\ sub[c].pc # "off"
    BY <1>4 DEF HangUp, e, BusInv
  <2> HIDE DEF s
  <2>4. QED
    BY <1>1, <2>2, <2>3, StreamKeeps
<1>5. QED
  BY <1>2, <1>3, <1>4 DEF ClientStep

LEMMA BusNextInv == BusInv /\ [Next]_vars => BusInv'
<1> SUFFICES ASSUME BusInv, [Next]_vars PROVE BusInv'
  OBVIOUS
<1>1. CASE UNCHANGED busVars
  BY <1>1 DEF busVars, stream, bus, BusInv, NoGapFor
<1>2. CASE BusNext
  BY <1>2, PushKeeps, SendKeeps, QueryKeeps, ForwarderKeeps, ClientKeeps DEF BusNext
<1>3. QED
  BY <1>1, <1>2 DEF Next, vars

(***************************************************************************)
(* A client that subscribes and then asks for the buffer misses no signal  *)
(* between the two: what the answer does not have and had not left the     *)
(* buffer, is on its way or comes by stream, however the publishers' sends *)
(* and their pushes interleave (publish, query_signals).                   *)
(***************************************************************************)
THEOREM HistoryMeetsStream == Spec => []NoGap
<1>1. Init => BusInv
  BY BusInitInv DEF Init
<1>2. BusInv => NoGap
  BY DEF BusInv, NoGapFor, NoGap
<1>3. QED
  BY <1>1, <1>2, BusNextInv, PTL DEF Spec

-----------------------------------------------------------------------------
(* The stream *)

Increasing(q) == \A i, j \in DOMAIN q : i < j => q[i] < q[j]

(* InOrderOnce for a client, in any state of its task and of the channel. *)
Delivers(c, s, items) ==
  /\ Range(OnTheWay(s)) =
       {n \in s.since..(s.next - 1) \ s.skipped : Wants(c, items[n])}
  /\ Increasing(OnTheWay(s))

Placed(s, items) ==
  /\ s.since <= s.next /\ s.next <= Len(items) + 1
  /\ s.held # 0 <=> s.pc = "send"

StreamInv ==
  \A c \in Clients :
    /\ Placed(sub[c], sent)
    /\ \A n \in sub[c].skipped : n < Oldest
    /\ sub[c].open => Delivers(c, sub[c], sent)

LEMMA AppendIncreases ==
  ASSUME NEW q \in Seq(Nat), NEW n \in Nat
  PROVE  /\ Append(q, n) \in Seq(Nat) /\ Range(Append(q, n)) = Range(q) \cup {n}
         /\ Increasing(q) /\ (\A m \in Range(q) : m < n) => Increasing(Append(q, n))
<1> DEFINE r == Append(q, n)
<1>1. /\ r \in Seq(Nat) /\ Len(r) = Len(q) + 1 /\ Len(q) \in Nat
      /\ \A i \in 1..Len(q) : r[i] = q[i]
      /\ r[Len(q) + 1] = n
  BY AppendProperties, LenProperties
<1>2. DOMAIN q = 1..Len(q) /\ DOMAIN r = 1..(Len(q) + 1)
  BY <1>1, LenProperties
<1> HIDE DEF r
<1>3. Range(r) = Range(q) \cup {n}
  BY <1>1, <1>2 DEF Range
<1>4. ASSUME Increasing(q), \A m \in Range(q) : m < n PROVE Increasing(r)
  <2>1. \A i \in 1..Len(q) : q[i] < n
    BY <1>2, <1>4 DEF Range
  <2>2. ASSUME NEW i \in DOMAIN r, NEW j \in DOMAIN r, i < j PROVE r[i] < r[j]
    <3>1. i \in 1..Len(q)
      BY <1>1, <1>2, <2>2
    <3>2. CASE j \in 1..Len(q)
      BY <1>1, <1>2, <1>4, <2>2, <3>1, <3>2 DEF Increasing
    <3>3. CASE j = Len(q) + 1
      BY <1>1, <2>1, <3>1, <3>3
    <3>4. QED
      BY <1>1, <1>2, <3>2, <3>3
  <2>3. QED
    BY <2>2 DEF Increasing
<1>5. QED
  BY <1>1, <1>3, <1>4 DEF r

(* What is held is the last on the way. *)
LEMMA WayHolds ==
  ASSUME NEW s \in Streams
  PROVE  /\ s.got \o s.room \in Seq(Nat) /\ OnTheWay(s) \in Seq(Nat)
         /\ s.held = 0 => OnTheWay(s) = s.got \o s.room
         /\ s.held # 0 => OnTheWay(s) = Append(s.got \o s.room, s.held)
<1> DEFINE q == s.got \o s.room
<1>1. s.got \in Seq(Nat) /\ s.room \in Seq(Nat) /\ s.held \in Nat
  BY DEF Streams
<1>2. q \in Seq(Nat)
  BY <1>1, ConcatProperties
<1>3. OnTheWay(s) = q \o (IF s.held = 0 THEN <<>> ELSE <<s.held>>)
  BY DEF OnTheWay
<1> HIDE DEF q
<1>4. q \o <<>> = q /\ q \o <<s.held>> = Append(q, s.held)
  BY <1>1, <1>2, ConcatEmptySeq, AppendIsConcat
<1>5. Append(q, s.held) \in Seq(Nat)
  BY <1>1, <1>2, AppendProperties
<1>6. QED
  BY <1>2, <1>3, <1>4, <1>5 DEF q

LEMMA ForwardedWay ==
  ASSUME NEW s \in Streams, s.held # 0
  PROVE  s.got \o Append(s.room, s.held) = OnTheWay(s)
<1>1. ASSUME NEW got \in Seq(Nat), NEW room \in Seq(Nat), NEW held \in Nat
      PROVE  got \o Append(room, held) = (got \o room) \o <<held>>
  <2>1. <<held>> \in Seq(Nat) /\ Append(room, held) = room \o <<held>>
    BY AppendIsConcat
  <2>2. (got \o room) \o <<held>> = got \o (room \o <<held>>)
    BY <2>1, ConcatAssociative
  <2>3. QED
    BY <2>1, <2>2
<1>2. s.got \in Seq(Nat) /\ s.room \in Seq(Nat) /\ s.held \in Nat
  BY DEF Streams
<1>3. OnTheWay(s) = (s.got \o s.room) \o <<s.held>>
  BY DEF OnTheWay
<1>4. QED
  BY <1>1, <1>2, <1>3

LEMMA ReadWay ==
  ASSUME NEW got \in Seq(Nat), NEW room \in Seq(Nat), room # <<>>
  PROVE  Append(got, Head(room)) \o Tail(room) = got \o room
<1> DEFINE h == Head(room)
           t == Tail(room)
<1>1. h \in Nat /\ t \in Seq(Nat) /\ <<h>> \in Seq(Nat)
  BY HeadTailProperties
<1>2. room = <<h>> \o t
  <2>1. /\ Len(t) = Len(room) - 1 /\ Len(room) \in Nat \ {0}
        /\ \A i \in 1..Len(t) : t[i] = room[i + 1]
    BY HeadTailProperties, EmptySeq
  <2>2. h = room[1]
    OBVIOUS
  <2>3. /\ <<h>> \o t \in Seq(Nat) /\ Len(<<h>> \o t) = Len(room)
        /\ \A i \in 1..Len(room) : (<<h>> \o t)[i] = IF i <= 1 THEN <<h>>[1] ELSE t[i - 1]
    <3>1. Len(<<h>>) = 1
      OBVIOUS
    <3>2. QED
      BY <1>1, <2>1, <3>1, ConcatProperties
  <2> HIDE DEF h, t
  <2>4. \A i \in 1..Len(room) : (<<h>> \o t)[i] = room[i]
    BY <2>1, <2>2, <2>3
  <2>5. QED
    BY <2>3, <2>4, SeqEqual
<1>3. Append(got, h) = got \o <<h>>
  BY <1>1, AppendIsConcat
<1>4. (got \o <<h>>) \o t = got \o (<<h>> \o t)
  BY <1>1, ConcatAssociative
<1>5. QED
  BY <1>2, <1>3, <1>4

LEMMA StreamInitInv == BusInit => StreamInv
<1> SUFFICES ASSUME BusInit PROVE StreamInv
  OBVIOUS
<1>1. Len(sent) = 0 /\ sub = [c \in Clients |-> NotSubscribed]
  BY DEF BusInit, StreamInit
<1>2. /\ NotSubscribed.since = 1 /\ NotSubscribed.next = 1 /\ NotSubscribed.held = 0
      /\ NotSubscribed.pc = "off" /\ ~NotSubscribed.open /\ NotSubscribed.skipped = {}
  BY DEF NotSubscribed
<1>3. QED
  BY <1>1, <1>2 DEF StreamInv, Placed

(* What is sent comes behind all that has gone past, and makes nothing that *)
(* was overwritten come back.                                               *)
LEMMA SendDelivers ==
  ASSUME BusInv, StreamInv, NEW item \in Nat, Send(item), UNCHANGED sub
  PROVE  StreamInv'
<1>1. /\ Len(sent) \in Nat /\ Len(sent') = Len(sent) + 1
      /\ \A n \in 1..Len(sent) : sent'[n] = sent[n]
  BY DEF BusInv, Send
<1>2. Oldest \in Nat /\ Oldest' \in Nat /\ Oldest <= Oldest'
  BY <1>1, BusAssumption DEF Oldest
<1>3. ASSUME NEW c \in Clients
      PROVE  /\ Placed(sub[c], sent')
             /\ \A n \in sub[c].skipped : n < Oldest'
             /\ sub[c].open => Delivers(c, sub[c], sent')
  <2> DEFINE s == sub[c]
             passed == s.since..(s.next - 1) \ s.skipped
  <2>1. /\ s.since \in Nat \ {0} /\ s.next \in Nat /\ s.skipped \subseteq Nat
        /\ Placed(s, sent) /\ (\A n \in s.skipped : n < Oldest)
        /\ s.open => Delivers(c, s, sent)
    BY DEF BusInv, StreamInv, Streams
  <2>2. Placed(s, sent') /\ passed \subseteq 1..Len(sent)
    BY <1>1, <2>1 DEF Placed
  <2> HIDE DEF s
  <2>3. {n \in passed : Wants(c, sent'[n])} = {n \in passed : Wants(c, sent[n])}
    BY <1>1, <2>2
  <2>4. s.open => Delivers(c, s, sent')
    BY <2>1, <2>3 DEF Delivers
  <2>5. \A n \in s.skipped : n < Oldest'
    BY <1>2, <2>1
  <2>6. QED
    BY <2>2, <2>4, <2>5 DEF s
<1>4. QED
  BY <1>3 DEF StreamInv

LEMMA StreamMoves ==
  ASSUME BusInv, StreamInv, NEW c \in Clients, NEW s \in Streams,
         sub' = [sub EXCEPT ![c] = s], UNCHANGED sent,
         Placed(s, sent), \A n \in s.skipped : n < Oldest,
         s.open => Delivers(c, s, sent)
  PROVE  StreamInv'
<1>1. sub'[c] = s /\ \A b \in Clients : b # c => sub'[b] = sub[b]
  BY DEF BusInv
<1>2. Oldest' = Oldest
  BY DEF Oldest
<1>3. ASSUME NEW b \in Clients
      PROVE  /\ Placed(sub'[b], sent)
             /\ \A n \in sub'[b].skipped : n < Oldest
             /\ sub'[b].open => Delivers(b, sub'[b], sent)
  BY <1>1 DEF StreamInv
<1>4. QED
  BY <1>2, <1>3 DEF StreamInv

(* A receiver is put behind what it skips: nothing wanted is lost between.  *)
LEMMA LaggedDelivers ==
  ASSUME BusInv, StreamInv, NEW c \in Clients, Lagged(c)
  PROVE  StreamInv'
<1> DEFINE old  == sub[c]
           gap  == old.next..(Oldest - 1)
           skip == old.skipped \cup gap
           s    == [old EXCEPT !.next = Oldest, !.skipped = skip]
<1>1. /\ old \in Streams /\ old.pc = "recv" /\ old.next < Oldest /\ UNCHANGED sent
      /\ sub' = [sub EXCEPT ![c] = s]
  BY DEF BusInv, Lagged
<1>2. /\ Placed(old, sent) /\ (\A n \in old.skipped : n < Oldest)
      /\ old.open => Delivers(c, old, sent)
  BY DEF StreamInv
<1>3. Oldest \in Nat /\ Len(sent) \in Nat /\ Oldest <= Len(sent) + 1
  BY BusAssumption, OldestType DEF Oldest
<1>4. /\ old.since \in Nat \ {0} /\ old.next \in Nat /\ old.skipped \in SUBSET Nat
      /\ skip \in SUBSET Nat
  BY <1>1, <1>3 DEF Streams
<1> HIDE DEF gap, skip, old
<1>5. /\ s \in Streams /\ s.pc = old.pc /\ s.since = old.since /\ s.next = Oldest
      /\ s.held = old.held /\ s.got = old.got /\ s.room = old.room /\ s.open = old.open
      /\ s.skipped = skip
  BY <1>1, <1>3, <1>4 DEF Streams
<1> HIDE DEF s
<1>6. Placed(s, sent)
  BY <1>1, <1>2, <1>3, <1>4, <1>5 DEF Placed
<1>7. \A n \in s.skipped : n < Oldest
  BY <1>2, <1>3, <1>4, <1>5 DEF skip, gap
<1>8. s.since..(s.next - 1) \ s.skipped = old.since..(old.next - 1) \ old.skipped
  BY <1>1, <1>2, <1>3, <1>4, <1>5 DEF skip, gap, Placed
<1>9. OnTheWay(s) = OnTheWay(old)
  BY <1>5 DEF OnTheWay
<1>10. s.open => Delivers(c, s, sent)
  BY <1>2, <1>5, <1>8, <1>9 DEF Delivers
<1>11. QED
  BY <1>1, <1>5, <1>6, <1>7, <1>10, StreamMoves

LEMMA ReceiveDelivers ==
  ASSUME BusInv, StreamInv, NEW c \in Clients, Receive(c)
  PROVE  StreamInv'
<1> DEFINE old == sub[c]
           n   == old.next
           m   == n + 1
           t   == [old EXCEPT !.next = m]
           s   == [t EXCEPT !.held = n, !.pc = "send"]
<1>1. /\ old \in Streams /\ old.pc = "recv" /\ Oldest <= n /\ n <= Len(sent)
      /\ UNCHANGED sent
      /\ sub' = [sub EXCEPT ![c] = IF Wants(c, sent[n]) THEN s ELSE t]
  BY DEF BusInv, Receive
<1>2. /\ Placed(old, sent) /\ (\A k \in old.skipped : k < Oldest)
      /\ old.open => Delivers(c, old, sent)
  BY DEF StreamInv
<1>3. Oldest \in Nat /\ Len(sent) \in Nat
  BY OldestType
<1>4. /\ old.since \in Nat \ {0} /\ n \in Nat /\ old.skipped \in SUBSET Nat /\ m \in Nat
      /\ old.held = 0
  BY <1>1, <1>2 DEF Streams, Placed
<1> HIDE DEF m
<1>5. /\ t \in Streams /\ t.pc = old.pc /\ t.since = old.since /\ t.next = m
      /\ t.held = 0 /\ t.got = old.got /\ t.room = old.room /\ t.open = old.open
      /\ t.skipped = old.skipped
  BY <1>1, <1>4 DEF Streams
<1> HIDE DEF n, old, t
<1>6. /\ s \in Streams /\ s.pc = "send" /\ s.since = t.since /\ s.next = t.next
      /\ s.held = n /\ s.got = t.got /\ s.room = t.room /\ s.open = t.open
      /\ s.skipped = t.skipped
  BY <1>4, <1>5 DEF Streams
<1> HIDE DEF s
<1>7. n # 0 /\ n \notin old.skipped /\ old.since <= n
  BY <1>1, <1>2, <1>3, <1>4 DEF Placed, n
<1> DEFINE passed == old.since..(n - 1) \ old.skipped
<1>8. old.since..(m - 1) \ old.skipped = passed \cup {n}
  BY <1>4, <1>7 DEF m
<1>9. old.open => /\ Range(OnTheWay(old)) = {k \in passed : Wants(c, sent[k])}
                  /\ Increasing(OnTheWay(old))
  BY <1>2 DEF Delivers, n
<1>10. \A k \in passed : k < n
  BY <1>4
<1> HIDE DEF passed
<1>11. OnTheWay(old) = old.got \o old.room /\ OnTheWay(old) \in Seq(Nat)
  BY <1>1, <1>4, WayHolds
<1>12. CASE Wants(c, sent[n])
  <2>1. OnTheWay(s) = Append(OnTheWay(old), n)
    BY <1>5, <1>6, <1>7, <1>11, WayHolds
  <2>2. old.open => Range(OnTheWay(s)) = Range(OnTheWay(old)) \cup {n} /\ Increasing(OnTheWay(s))
    BY <1>4, <1>9, <1>10, <1>11, <2>1, AppendIncreases
  <2>3. s.open => Delivers(c, s, sent)
    BY <1>5, <1>6, <1>8, <1>9, <1>12, <2>2 DEF Delivers
  <2>4. Placed(s, sent)
    BY <1>1, <1>3, <1>4, <1>5, <1>6, <1>7 DEF Placed, m
  <2>5. \A k \in s.skipped : k < Oldest
    BY <1>2, <1>5, <1>6
  <2>6. QED
    BY <1>1, <1>6, <1>12, <2>3, <2>4, <2>5, StreamMoves
<1>13. CASE ~Wants(c, sent[n])
  <2>1. OnTheWay(t) = OnTheWay(old)
    BY <1>5, <1>4 DEF OnTheWay
  <2>2. t.open => Delivers(c, t, sent)
    BY <1>5, <1>8, <1>9, <1>13, <2>1 DEF Delivers
  <2>3. Placed(t, sent)
    BY <1>1, <1>3, <1>4, <1>5, <1>7 DEF Placed, m
  <2>4. \A k \in t.skipped : k < Oldest
    BY <1>2, <1>5
  <2>5. QED
    BY <1>1, <1>5, <1>13, <2>2, <2>3, <2>4, StreamMoves
<1>14. QED
  BY <1>12, <1>13

(* A step that moves items along, or ends: the numbers stay. *)
LEMMA SameWayDelivers ==
  ASSUME BusInv, StreamInv, NEW c \in Clients, NEW s \in Streams,
         sub' = [sub EXCEPT ![c] = s], UNCHANGED sent,
         s.since = sub[c].since, s.next = sub[c].next, s.skipped = sub[c].skipped,
         s.held # 0 <=> s.pc = "send",
         s.open => sub[c].open /\ OnTheWay(s) = OnTheWay(sub[c])
  PROVE  StreamInv'
<1>1. Placed(s, sent) /\ \A n \in s.skipped : n < Oldest
  BY DEF StreamInv, Placed
<1>2. s.open => Delivers(c, s, sent)
  BY DEF StreamInv, Delivers
<1>3. QED
  BY <1>1, <1>2, StreamMoves

LEMMA ForwarderDelivers ==
  ASSUME BusInv, StreamInv, NEW c \in Clients, ForwarderStep(c)
  PROVE  StreamInv'
<1> DEFINE old == sub[c]
<1>1. old \in Streams /\ Placed(old, sent)
  BY DEF BusInv, StreamInv
<1>2. CASE Forward(c)
  <2> DEFINE room == Append(old.room, old.held)
             s    == [old EXCEPT !.room = room, !.held = 0, !.pc = "recv"]
  <2>1. old.held # 0 /\ sub' = [sub EXCEPT ![c] = s] /\ UNCHANGED sent
    BY <1>1, <1>2 DEF Forward, Placed
  <2>2. room \in Seq(Nat)
    BY <1>1 DEF Streams
  <2>3. old.got \o room = OnTheWay(old)
    BY <1>1, <2>1, ForwardedWay
  <2> HIDE DEF room, old
  <2>4. /\ s \in Streams /\ s.pc = "recv" /\ s.held = 0 /\ s.since = old.since
        /\ s.next = old.next /\ s.skipped = old.skipped /\ s.open = old.open
        /\ s.got = old.got /\ s.room = room
    BY <1>1, <2>2 DEF Streams
  <2> HIDE DEF s
  <2>5. OnTheWay(s) = OnTheWay(old)
    BY <2>3, <2>4, WayHolds
  <2>6. QED
    BY <2>1, <2>4, <2>5, SameWayDelivers DEF old
<1>3. CASE ForwardFails(c)
  <2> DEFINE s == [old EXCEPT !.held = 0, !.pc = "gone"]
  <2>1. ~old.open /\ sub' = [sub EXCEPT ![c] = s] /\ UNCHANGED sent
    BY <1>3 DEF ForwardFails
  <2> HIDE DEF old
  <2>2. /\ s \in Streams /\ s.pc = "gone" /\ s.held = 0 /\ s.since = old.since
        /\ s.next = old.next /\ s.skipped = old.skipped /\ s.open = old.open
    BY <1>1 DEF Streams
  <2> HIDE DEF s
  <2>3. QED
    BY <2>1, <2>2, SameWayDelivers DEF old
<1>4. QED
  BY <1>2, <1>3, LaggedDelivers, ReceiveDelivers DEF ForwarderStep

LEMMA ClientDelivers ==
  ASSUME BusInv, StreamInv, NEW c \in Clients, ClientStep(c)
  PROVE  StreamInv'
<1> DEFINE old == sub[c]
<1>1. old \in Streams /\ Placed(old, sent) /\ Len(sent) \in Nat
  BY DEF BusInv, StreamInv
<1>2. CASE Subscribe(c)
  <2> DEFINE k == Len(sent) + 1
             s == [NotSubscribed EXCEPT !.pc = "recv", !.open = TRUE, !.since = k, !.next = k]
  <2>1. k \in Nat \ {0} /\ k - 1 < k
    BY <1>1
  <2>2. /\ NotSubscribed \in Streams /\ NotSubscribed.held = 0 /\ NotSubscribed.skipped = {}
        /\ NotSubscribed.got = <<>> /\ NotSubscribed.room = <<>>
    BY DEF NotSubscribed, Streams
  <2>3. sub' = [sub EXCEPT ![c] = s] /\ UNCHANGED sent
    BY <1>2 DEF Subscribe
  <2>4. k <= Len(sent) + 1
    BY <1>1
  <2> HIDE DEF k
  <2>5. /\ s \in Streams /\ s.pc = "recv" /\ s.since = k /\ s.next = k /\ s.held = 0
        /\ s.skipped = {} /\ s.got = <<>> /\ s.room = <<>>
    BY <2>1, <2>2 DEF Streams
  <2> HIDE DEF s
  <2>6. Placed(s, sent)
    BY <2>1, <2>4, <2>5 DEF Placed
  <2>7. OnTheWay(s) = <<>>
    <3>1. <<>> \in Seq(Nat) /\ <<>> \o <<>> = <<>>
      BY ConcatEmptySeq
    <3>2. QED
      BY <2>5, <3>1, WayHolds
  <2>8. s.since..(s.next - 1) = {}
    BY <2>1, <2>5
  <2>9. Range(<<>>) = {} /\ Increasing(<<>>)
    BY DEF Range, Increasing
  <2>10. Delivers(c, s, sent)
    BY <2>7, <2>8, <2>9 DEF Delivers
  <2>11. QED
    BY <2>3, <2>5, <2>6, <2>10, StreamMoves
<1>3. CASE Read(c)
  <2> DEFINE got  == Append(old.got, Head(old.room))
             room == Tail(old.room)
             s    == [old EXCEPT !.got = got, !.room = room]
  <2>1. /\ sub' = [sub EXCEPT ![c] = s] /\ UNCHANGED sent /\ old.room # <<>>
        /\ old.got \in Seq(Nat) /\ old.room \in Seq(Nat)
    BY <1>1, <1>3 DEF Read, Streams
  <2>2. got \in Seq(Nat) /\ room \in Seq(Nat)
    BY <2>1
  <2>3. got \o room = old.got \o old.room
    BY <2>1, ReadWay
  <2> HIDE DEF got, room, old
  <2>4. /\ s \in Streams /\ s.pc = old.pc /\ s.held = old.held /\ s.since = old.since
        /\ s.next = old.next /\ s.skipped = old.skipped /\ s.open = old.open
        /\ s.got = got /\ s.room = room
    BY <1>1, <2>2 DEF Streams
  <2> HIDE DEF s
  <2>5. OnTheWay(s) = OnTheWay(old)
    BY <2>3, <2>4 DEF OnTheWay
  <2>6. QED
    BY <1>1, <2>1, <2>4, <2>5, SameWayDelivers DEF old, Placed
<1>4. CASE HangUp(c)
  <2> DEFINE e == <<>>
             s == [old EXCEPT !.open = FALSE, !.room = e]
  <2>1. sub' = [sub EXCEPT ![c] = s] /\ UNCHANGED sent
    BY <1>4 DEF HangUp
  <2>2. e \in Seq(Nat)
    OBVIOUS
  <2> HIDE DEF e, old
  <2>3. /\ s \in Streams /\ s.pc = old.pc /\ s.held = old.held /\ s.since = old.since
        /\ s.next = old.next /\ s.skipped = old.skipped /\ ~s.open
    BY <1>1, <2>2 DEF Streams
  <2> HIDE DEF s
  <2>4. QED
    BY <1>1, <2>1, <2>3, SameWayDelivers DEF old, Placed
<1>5. QED
  BY <1>2, <1>3, <1>4 DEF ClientStep

LEMMA StreamNextInv == BusInv /\ StreamInv /\ [Next]_vars => StreamInv'
<1> SUFFICES ASSUME BusInv, StreamInv, [Next]_vars PROVE StreamInv'
  OBVIOUS
<1>1. CASE UNCHANGED stream
  BY <1>1 DEF stream, StreamInv, Oldest
<1>2. ASSUME NEW p \in Strategies, SendSignal(p) PROVE StreamInv'
  <2>1. sending[p] \in Nat /\ Send(sending[p]) /\ UNCHANGED sub
    BY <1>2 DEF SendSignal, BusInv
  <2>2. QED
    BY <2>1, SendDelivers
<1>3. CASE BusNext
  BY <1>1, <1>2, <1>3, ForwarderDelivers, ClientDelivers DEF BusNext, Push, QuerySignals
<1>4. QED
  BY <1>1, <1>3 DEF Next, vars, busVars

(***************************************************************************)
(* A client that listens gets what it asked for, in the order it was sent, *)
(* each item once, and misses only what was overwritten, for any size of   *)
(* the broadcast channel and of the client's, any number of clients and    *)
(* strategies (the tasks of subscribe_signals and subscribe_decisions).    *)
(***************************************************************************)
THEOREM StreamsDeliver == Spec => []InOrderOnce
<1>1. Init => BusInv /\ StreamInv
  BY BusInitInv, StreamInitInv DEF Init
<1>2. BusInv /\ StreamInv /\ [Next]_vars => (BusInv /\ StreamInv)'
  BY BusNextInv, StreamNextInv
<1>3. StreamInv => InOrderOnce
  BY DEF StreamInv, Delivers, Increasing, InOrderOnce
<1>4. QED
  BY <1>1, <1>2, <1>3, PTL DEF Spec

-----------------------------------------------------------------------------
(* Ranks of a cross section *)

Numbered == Seq(Int \cup {NaN})

LEMMA FiniteIsNumber ==
  ASSUME NEW v \in Numbered
  PROVE  /\ Finite(v) \subseteq 1..Len(v) /\ IsFiniteSet(Finite(v))
         /\ Cardinality(Finite(v)) \in Nat
         /\ DOMAIN v = 1..Len(v)
         /\ \A i \in Finite(v) : v[i] \in Int
         /\ \A i \in 1..Len(v) \ Finite(v) : v[i] = NaN
<1>1. Len(v) \in Nat /\ DOMAIN v = 1..Len(v) /\ \A i \in 1..Len(v) : v[i] \in Int \cup {NaN}
  BY DEF Numbered
<1>2. IsFiniteSet(1..Len(v))
  BY <1>1, FS_Interval
<1>3. Finite(v) \in SUBSET (1..Len(v)) /\ \A i \in Finite(v) : v[i] # NaN
  BY <1>1 DEF Finite
<1>4. IsFiniteSet(Finite(v))
  BY <1>2, <1>3, FS_Subset
<1>5. Cardinality(Finite(v)) \in Nat
  BY <1>4, FS_CardinalityType
<1>6. \A i \in 1..Len(v) \ Finite(v) : v[i] = NaN
  BY <1>1 DEF Finite
<1>7. \A i \in Finite(v) : v[i] \in Int
  BY <1>1, <1>3
<1>8. QED
  BY <1>1, <1>3, <1>4, <1>5, <1>6, <1>7

(* What ordinal_ranks promises: the places from 0, in the order of Before. *)
Ranked(v) ==
  /\ OrdinalRanks(v) \in Bijection(Finite(v), 0..(Cardinality(Finite(v)) - 1))
  /\ \A i, j \in Finite(v) :
       Before(v, i, j) <=> OrdinalRanks(v)[i] < OrdinalRanks(v)[j]

LEMMA OrdinalsRank ==
  ASSUME NEW v \in Numbered PROVE Ranked(v)
<1> DEFINE S == Finite(v)
           before == [i \in S |-> {j \in S : Before(v, j, i)} \cup {i}]
           n == Cardinality(S)
           count == [i \in S |-> Cardinality(before[i])]
           ranks == OrdinalRanks(v)
<1>1. /\ IsFiniteSet(S) /\ S \subseteq Int /\ n \in Nat
      /\ \A i \in S : v[i] \in Int
  BY FiniteIsNumber
<1>2. \A i \in S : before[i] \subseteq S /\ i \in before[i]
  OBVIOUS
<1>3. /\ \A i, j \in S : i # j => Before(v, i, j) \/ Before(v, j, i)
      /\ \A i, j \in S : ~ (Before(v, i, j) /\ Before(v, j, i))
      /\ \A i, j, k \in S : Before(v, i, j) /\ Before(v, j, k) => Before(v, i, k)
  BY <1>1 DEF Before
<1>4. \A i, j \in S : Before(v, i, j) =>
        i # j /\ i \in before[j] /\ j \notin before[i] /\ before[i] \subseteq before[j]
  <2> SUFFICES ASSUME NEW i \in S, NEW j \in S, Before(v, i, j)
               PROVE  /\ i # j /\ i \in before[j] /\ j \notin before[i]
                      /\ before[i] \subseteq before[j]
    OBVIOUS
  <2>1. i # j /\ ~ Before(v, j, i)
    BY <1>3
  <2> HIDE DEF S
  <2>2. QED
    BY <1>3, <2>1
<1>5. \A i, j \in S : i # j =>
        \/ i \in before[j] /\ j \notin before[i] /\ before[i] \subseteq before[j]
        \/ j \in before[i] /\ i \notin before[j] /\ before[j] \subseteq before[i]
  <2> HIDE DEF S, before
  <2>1. QED
    BY <1>3, <1>4
<1>6. /\ count \in Bijection(S, 1..n)
      /\ \A i, j \in S : i # j /\ before[i] \subseteq before[j] =>
           Cardinality(before[i]) < Cardinality(before[j])
  <2> HIDE DEF S, before
  <2>1. QED
    BY <1>1, <1>2, <1>5, CountedUp
<1>7. \A i \in S : count[i] \in 1..n /\ ranks[i] = count[i] - 1
  <2> SUFFICES ASSUME NEW i \in S PROVE count[i] \in 1..n /\ ranks[i] = count[i] - 1
    OBVIOUS
  <2>1. count[i] \in 1..n
    BY <1>6 DEF Bijection, Injection
  <2> DEFINE T == {j \in S : Before(v, j, i)}
  <2>2. T \in SUBSET S
    OBVIOUS
  <2>3. IsFiniteSet(T) /\ i \notin T
    BY <1>1, <1>3, <2>2, FS_Subset
  <2>4. Cardinality(T) \in Nat /\ Cardinality(T \cup {i}) = Cardinality(T) + 1
    <3> HIDE DEF T
    <3>1. QED
      BY <2>3, FS_AddElement, FS_CardinalityType
  <2>5. ranks[i] = Cardinality(T) /\ before[i] = T \cup {i}
    BY DEF OrdinalRanks
  <2>6. QED
    BY <2>1, <2>4, <2>5
<1>8. \A i, j \in S : Before(v, i, j) => ranks[i] < ranks[j]
  <2> SUFFICES ASSUME NEW i \in S, NEW j \in S, Before(v, i, j)
               PROVE  ranks[i] < ranks[j]
    OBVIOUS
  <2>1. count[i] < count[j]
    <3>1. i # j /\ before[i] \subseteq before[j]
      BY <1>4
    <3> HIDE DEF before
    <3>2. QED
      BY <1>6, <3>1
  <2> HIDE DEF S, count, ranks
  <2>2. QED
    BY <1>1, <1>7, <2>1
<1>9. \A i, j \in S : Before(v, i, j) <=> ranks[i] < ranks[j]
  <2> SUFFICES ASSUME NEW i \in S, NEW j \in S, ranks[i] < ranks[j]
               PROVE  Before(v, i, j)
    BY <1>8
  <2>1. ranks[i] \in Int /\ ranks[j] \in Int
    <3> HIDE DEF S, count, ranks
    <3>1. QED
      BY <1>1, <1>7
  <2>2. i # j /\ ~ (ranks[j] < ranks[i])
    BY <2>1
  <2>3. QED
    BY <1>3, <1>8, <2>2
<1>10. ranks \in Bijection(S, 0..(n - 1))
  <2>1. DOMAIN ranks = S
    BY DEF OrdinalRanks
  <2>2. \A i, j \in S : count[i] = count[j] => i = j
    BY <1>6 DEF Bijection, Injection, IsInjective
  <2>3. \A k \in 1..n : \E i \in S : count[i] = k
    BY <1>6 DEF Bijection, Surjection
  <2>4. ranks = [i \in S |-> ranks[i]]
    BY DEF OrdinalRanks
  <2> HIDE DEF S, count, n, ranks
  <2>5. ranks \in [S -> 0..(n - 1)]
    <3>1. \A i \in S : ranks[i] \in 0..(n - 1)
      BY <1>1, <1>7
    <3>2. QED
      BY <2>4, <3>1
  <2>6. \A i, j \in S : ranks[i] = ranks[j] => i = j
    BY <1>1, <1>7, <2>2
  <2>7. \A k \in 0..(n - 1) : \E i \in S : ranks[i] = k
    <3> SUFFICES ASSUME NEW k \in 0..(n - 1) PROVE \E i \in S : ranks[i] = k
      OBVIOUS
    <3>1. k + 1 \in 1..n
      BY <1>1
    <3>2. PICK i \in S : count[i] = k + 1
      BY <2>3, <3>1
    <3>3. QED
      BY <1>1, <1>7, <3>2
  <2>8. QED
    BY <2>5, <2>6, <2>7 DEF Bijection, Injection, Surjection, IsInjective
<1>11. QED
  BY <1>9, <1>10 DEF Ranked

(* The direction of a factor turns its values, not what is finite. *)
LEMMA AdjustedIs ==
  ASSUME NEW v \in Numbered, NEW direction
  PROVE  /\ Adjusted(v, direction) \in Numbered
         /\ Finite(Adjusted(v, direction)) = Finite(v)
         /\ \A i \in Finite(v) : Adjusted(v, direction)[i]
              = IF direction = "Positive" THEN v[i] ELSE -v[i]
<1> DEFINE a == Adjusted(v, direction)
<1>1. /\ DOMAIN v = 1..Len(v) /\ Len(v) \in Nat /\ Finite(v) \subseteq 1..Len(v)
      /\ \A i \in Finite(v) : v[i] \in Int
      /\ \A i \in 1..Len(v) \ Finite(v) : v[i] = NaN
  <2>1. Len(v) \in Nat
    BY DEF Numbered
  <2>2. QED
    BY <2>1, FiniteIsNumber
<1>2. NaN \notin Int /\ \A i \in Finite(v) : v[i] # NaN
  BY SectionAssumption DEF Finite
<1>3. /\ a = [i \in 1..Len(v) |-> a[i]]
      /\ \A i \in 1..Len(v) : a[i] =
           IF v[i] = NaN \/ direction = "Positive" THEN v[i] ELSE -v[i]
  BY <1>1 DEF Adjusted
<1> HIDE DEF a
<1>4. \A i \in Finite(v) : a[i] = (IF direction = "Positive" THEN v[i] ELSE -v[i])
  BY <1>1, <1>2, <1>3
<1>5. \A i \in Finite(v) : a[i] \in Int /\ a[i] # NaN
  BY <1>1, <1>2, <1>4
<1>6. \A i \in 1..Len(v) \ Finite(v) : a[i] = NaN
  BY <1>1, <1>3
<1>7. a \in Numbered
  <2>1. \A i \in 1..Len(v) : a[i] \in Int \cup {NaN}
    BY <1>5, <1>6
  <2>2. a \in [1..Len(v) -> Int \cup {NaN}]
    BY <1>3, <2>1
  <2>3. QED
    BY <1>1, <2>2 DEF Numbered
<1>8. Finite(a) = Finite(v)
  <2>1. DOMAIN a = 1..Len(v)
    BY <1>3
  <2>2. QED
    BY <1>1, <1>5, <1>6, <2>1 DEF Finite
<1>9. QED
  BY <1>4, <1>7, <1>8 DEF a

LEMMA TimesGrows ==
  ASSUME NEW a \in Int, NEW b \in Int, a < b, NEW k \in Nat, k > 0
  PROVE  a * k < b * k
<1>1. PICK d \in Nat : b = a + d /\ d > 0
  <2>1. b - a \in Nat /\ b = a + (b - a) /\ b - a > 0
    OBVIOUS
  <2>2. QED
    BY <2>1
<1>2. b * k = a * k + d * k /\ d * k > 0 /\ a * k \in Int /\ d * k \in Int
  BY <1>1
<1>3. QED
  BY <1>2

LEMMA TimesOrder ==
  ASSUME NEW a \in Int, NEW b \in Int, NEW k \in Nat, k > 0
  PROVE  /\ a * k < b * k <=> a < b
         /\ a * k <= b * k <=> a <= b
<1>1. a < b => a * k < b * k
  BY TimesGrows
<1>2. b < a => b * k < a * k
  BY TimesGrows
<1>3. a * k \in Int /\ b * k \in Int
  OBVIOUS
<1>4. a = b => a * k = b * k
  OBVIOUS
<1>5. QED
  BY <1>1, <1>2, <1>3, <1>4

(* A larger value in the direction of the factor has a larger score. *)
LEMMA ScoresFollow ==
  ASSUME NEW v \in Numbered, NEW direction, NEW i \in Finite(v), NEW j \in Finite(v),
         Adjusted(v, direction)[i] < Adjusted(v, direction)[j]
  PROVE  RankScores(v, direction)[i][1] * RankScores(v, direction)[j][2]
           < RankScores(v, direction)[j][1] * RankScores(v, direction)[i][2]
<1> DEFINE a == Adjusted(v, direction)
           ranks == OrdinalRanks(a)
           n == Cardinality(Finite(v))
<1>1. a \in Numbered /\ Finite(a) = Finite(v)
  BY AdjustedIs
<1>2. /\ DOMAIN ranks = Finite(v)
      /\ ranks \in Bijection(Finite(v), 0..(n - 1))
      /\ n \in Nat /\ \A k \in Finite(v) : a[k] \in Int
  <2>1. Ranked(a)
    BY <1>1, OrdinalsRank
  <2>2. DOMAIN ranks = Finite(v)
    BY <1>1 DEF OrdinalRanks
  <2>3. n \in Nat /\ \A k \in Finite(v) : a[k] \in Int
    BY <1>1, FiniteIsNumber
  <2>4. QED
    BY <1>1, <2>1, <2>2, <2>3 DEF Ranked
<1>3. ranks[i] < ranks[j]
  <2>1. Ranked(a)
    BY <1>1, OrdinalsRank
  <2>2. Before(a, i, j)
    BY DEF Before
  <2>3. QED
    BY <1>1, <2>1, <2>2 DEF Ranked
<1>4. ranks[i] \in 0..(n - 1) /\ ranks[j] \in 0..(n - 1)
  BY <1>2 DEF Bijection, Injection
<1>5. n > 1 /\ n - 1 \in Nat /\ ranks[i] \in Int /\ ranks[j] \in Int
  BY <1>2, <1>3, <1>4
<1>6. /\ RankScores(v, direction)[i] = <<ranks[i], n - 1>>
      /\ RankScores(v, direction)[j] = <<ranks[j], n - 1>>
  BY <1>2, <1>5 DEF RankScores
<1> HIDE DEF a, ranks, n
<1>7. ranks[i] * (n - 1) < ranks[j] * (n - 1)
  <2> DEFINE k == n - 1
  <2>1. k \in Nat /\ k > 0
    BY <1>2, <1>5
  <2> HIDE DEF k
  <2>2. ranks[i] * k < ranks[j] * k
    BY <1>3, <1>5, <2>1, TimesGrows
  <2>3. QED
    BY <2>2 DEF k
<1>8. QED
  BY <1>6, <1>7

-----------------------------------------------------------------------------
(* Ties *)

(* The members of a tie have the ranks from the first place of the tie to   *)
(* the last, and average_ranks gives each of them the mean.                 *)
LEMMA TiesShare ==
  ASSUME NEW v \in Numbered, NEW i \in Finite(v)
  PROVE  AverageRanks(v)[i] * Cardinality(TiesOf(v, i))
           = 2 * SumOver(OrdinalRanks(v), TiesOf(v, i))
<1> DEFINE S == Finite(v)
           T == TiesOf(v, i)
           L == {j \in S : v[j] < v[i]}
           U == {j \in S : v[j] <= v[i]}
           start == Cardinality(L)
           ties  == Cardinality(T)
           end   == Cardinality(U)
           ranks == OrdinalRanks(v)
<1>1. IsFiniteSet(S) /\ S \subseteq Int /\ \A j \in S : v[j] \in Int
  <2>1. Len(v) \in Nat
    BY DEF Numbered
  <2>2. QED
    BY <2>1, FiniteIsNumber
<1>2. /\ T \in SUBSET S /\ L \in SUBSET S /\ U \in SUBSET S
      /\ \A j : j \in T <=> j \in S /\ v[j] = v[i]
  BY DEF TiesOf
<1>3. /\ IsFiniteSet(T) /\ IsFiniteSet(L) /\ IsFiniteSet(U)
      /\ start \in Nat /\ ties \in Nat /\ end \in Nat
  <2> HIDE DEF S, T, L, U
  <2>1. IsFiniteSet(T) /\ IsFiniteSet(L) /\ IsFiniteSet(U)
    BY <1>1, <1>2, FS_Subset
  <2>2. QED
    BY <2>1, FS_CardinalityType
<1>4. end = start + ties
  <2>1. U = L \cup T /\ L \cap T = {}
    BY <1>1, <1>2
  <2>2. Cardinality(L \cup T) = Cardinality(L) + Cardinality(T) - Cardinality(L \cap T)
    <3> HIDE DEF L, T
    <3>1. QED
      BY <1>3, FS_Union
  <2>3. Cardinality(L \cap T) = 0
    BY <2>1, FS_EmptySet
  <2> HIDE DEF L, T, U
  <2>4. QED
    BY <1>3, <2>1, <2>2, <2>3
<1>5. \A j \in T : ranks[j] \in start..(end - 1)
  <2> SUFFICES ASSUME NEW j \in T PROVE ranks[j] \in start..(end - 1)
    OBVIOUS
  <2> DEFINE B == {k \in S : Before(v, k, j)}
  <2>1. j \in S /\ v[j] = v[i] /\ j \in U
    BY <1>1, <1>2
  <2>2. L \subseteq B /\ B \subseteq U \ {j}
    <3>1. \A k \in S : v[k] < v[i] => Before(v, k, j)
      BY <2>1 DEF Before
    <3>2. \A k \in S : Before(v, k, j) => v[k] <= v[i] /\ k # j
      BY <1>1, <2>1 DEF Before
    <3>3. QED
      BY <3>1, <3>2
  <2>3. ranks[j] = Cardinality(B)
    BY <2>1 DEF OrdinalRanks
  <2> HIDE DEF S, L, U, B
  <2>4. IsFiniteSet(U \ {j}) /\ Cardinality(U \ {j}) = end - 1
    BY <1>3, <2>1, FS_RemoveElement
  <2>5. IsFiniteSet(B) /\ Cardinality(B) <= end - 1
    <3>1. B \in SUBSET (U \ {j})
      BY <2>2
    <3>2. QED
      BY <2>4, <3>1, FS_Subset
  <2>6. start <= Cardinality(B) /\ Cardinality(B) \in Nat
    <3>1. L \in SUBSET B
      BY <2>2
    <3>2. QED
      BY <2>5, <3>1, FS_Subset, FS_CardinalityType
  <2>7. QED
    BY <1>3, <2>3, <2>5, <2>6
<1> DEFINE place == [j \in T |-> ranks[j]]
           run   == start..(start + ties - 1)
<1>6. place \in Injection(T, run)
  <2>1. Ranked(v)
    BY OrdinalsRank
  <2>2. \A j, k \in S : ranks[j] = ranks[k] => j = k
    BY <2>1 DEF Ranked, Bijection, Injection, IsInjective
  <2>3. place \in [T -> run]
    <3> HIDE DEF start, end, ties, ranks, T
    <3>1. \A j \in T : ranks[j] \in run
      BY <1>3, <1>4, <1>5
    <3>2. QED
      BY <3>1
  <2> HIDE DEF S, T, L, U, ranks
  <2>4. \A j, k \in T : place[j] = place[k] => j = k
    BY <1>2, <2>2
  <2>5. QED
    BY <2>3, <2>4 DEF Injection, IsInjective
<1>7. ties > 0
  <2>1. i \in T
    BY <1>2
  <2> HIDE DEF T
  <2>2. QED
    BY <1>3, <2>1, FS_EmptySet
<1>8. IsFiniteSet(run) /\ Cardinality(run) = ties
  <2> HIDE DEF start, ties
  <2>1. start \in Int /\ start + ties - 1 \in Int /\ start <= start + ties - 1
    BY <1>3, <1>7
  <2>2. /\ IsFiniteSet(start..(start + ties - 1))
        /\ Cardinality(start..(start + ties - 1)) = (start + ties - 1) - start + 1
    BY <2>1, FS_Interval
  <2>3. QED
    BY <1>3, <2>2
<1>9. place \in Bijection(T, run)
  <2> HIDE DEF T, place, run
  <2>1. place \in Surjection(T, run)
    BY <1>6, <1>8, FS_Injection DEF ties
  <2>2. QED
    BY <1>6, <2>1 DEF Bijection
<1>10. SumOver(ranks, T) = SumOver(Itself, run)
  <2>1. \A k \in run : Itself[k] \in Nat /\ Itself[k] = k
    BY <1>3 DEF Itself
  <2>2. \A j \in T : place[j] \in run /\ place[j] = ranks[j]
    BY <1>9 DEF Bijection, Injection
  <2> HIDE DEF T, place, run, ranks
  <2>3. \A j \in T : ranks[j] = Itself[place[j]]
    BY <2>1, <2>2
  <2>4. QED
    BY <1>3, <1>9, <2>1, <2>3, SumReindex
<1>11. 2 * SumOver(ranks, T) = ties * (2 * start + ties - 1)
  <2>1. 2 * SumOver(Itself, run) = ties * (2 * start + ties - 1)
    <3> HIDE DEF start, ties
    <3>1. QED
      BY <1>3, SumOfRun
  <2>2. QED
    BY <1>10, <2>1
<1>12. AverageRanks(v)[i] = start + end - 1
  BY DEF AverageRanks
<1> HIDE DEF start, ties, end, ranks, T
<1>13. (start + end - 1) * ties = ties * (2 * start + ties - 1)
  BY <1>3, <1>4
<1>14. QED
  BY <1>11, <1>12, <1>13 DEF ties, ranks, T

LEMMA RanksHold ==
  ASSUME NEW v \in Numbered PROVE RanksAgree(v)
<1> DEFINE S == Finite(v)
           n == Cardinality(S)
           ranks == OrdinalRanks(v)
           Less(x, y) == x[1] * y[2] < y[1] * x[2]
<1>1. Ranked(v)
  BY OrdinalsRank
<1>2. {ranks[i] : i \in S} = 0..(n - 1)
  BY <1>1 DEF Ranked, Bijection, Injection, Surjection
<1>3. ASSUME NEW i \in S, NEW j \in S, v[i] < v[j]
      PROVE  /\ ranks[i] < ranks[j]
             /\ Less(RankScores(v, "Positive")[i], RankScores(v, "Positive")[j])
             /\ Less(RankScores(v, "Negative")[j], RankScores(v, "Negative")[i])
  <2>1. v[i] \in Int /\ v[j] \in Int
    BY FiniteIsNumber
  <2>2. Before(v, i, j)
    BY <1>3 DEF Before
  <2>3. ranks[i] < ranks[j]
    BY <1>1, <2>2 DEF Ranked
  <2>4. Adjusted(v, "Positive")[i] < Adjusted(v, "Positive")[j]
    BY <1>3, AdjustedIs
  <2>5. Adjusted(v, "Negative")[j] < Adjusted(v, "Negative")[i]
    <3>1. /\ Adjusted(v, "Negative")[i] = -v[i]
          /\ Adjusted(v, "Negative")[j] = -v[j]
      BY AdjustedIs
    <3>2. QED
      BY <1>3, <2>1, <3>1
  <2>6. Less(RankScores(v, "Positive")[i], RankScores(v, "Positive")[j])
    BY <2>4, ScoresFollow
  <2>7. Less(RankScores(v, "Negative")[j], RankScores(v, "Negative")[i])
    BY <2>5, ScoresFollow
  <2>8. QED
    BY <2>3, <2>6, <2>7
<1>4. ASSUME NEW i \in S
      PROVE  AverageRanks(v)[i] * Cardinality(TiesOf(v, i)) = 2 * SumOver(ranks, TiesOf(v, i))
  BY TiesShare
<1>5. QED
  BY <1>2, <1>3, <1>4 DEF RanksAgree

-----------------------------------------------------------------------------
(* Buckets *)

(* Pairs are ranked by the factor, and what has no return has no rank. *)
LEMMA PairedIs ==
  ASSUME NEW v \in Numbered, NEW w \in Numbered
  PROVE  /\ Paired(v, w) \in Numbered
         /\ Finite(Paired(v, w)) = Both(v, w)
         /\ \A i \in Both(v, w) : Paired(v, w)[i] = v[i] /\ v[i] \in Int
<1> DEFINE p == Paired(v, w)
<1>1. /\ DOMAIN v = 1..Len(v) /\ Len(v) \in Nat
      /\ Both(v, w) \subseteq 1..Len(v)
      /\ \A i \in Both(v, w) : v[i] \in Int /\ v[i] # NaN
  <2>1. Len(v) \in Nat
    BY DEF Numbered
  <2>2. /\ DOMAIN v = 1..Len(v) /\ Finite(v) \subseteq 1..Len(v)
        /\ \A i \in Finite(v) : v[i] \in Int
    BY FiniteIsNumber
  <2>3. QED
    BY <2>1, <2>2 DEF Both, Finite
<1>2. p = [i \in 1..Len(v) |-> IF i \in Both(v, w) THEN v[i] ELSE NaN]
  BY <1>1 DEF Paired
<1>3. p \in [1..Len(v) -> Int \cup {NaN}]
  BY <1>1, <1>2
<1>4. p \in Numbered
  BY <1>1, <1>3 DEF Numbered
<1>5. Finite(p) = Both(v, w)
  BY <1>1, <1>2 DEF Finite
<1>6. QED
  BY <1>1, <1>2, <1>4, <1>5

(* The first index of a bucket. *)
First(b, n, q) == (b * n + q - 1) \div q

LEMMA FirstIs ==
  ASSUME NEW n \in Nat, NEW q \in Nat, q > 0, NEW b \in Nat
  PROVE  /\ First(b, n, q) \in Nat
         /\ b * n <= First(b, n, q) * q
         /\ First(b, n, q) * q < b * n + q
<1> DEFINE m == b * n + q - 1
<1>1. m \in Nat /\ b * n \in Nat
  OBVIOUS
<1> HIDE DEF m
<1>2. m \div q \in Nat /\ m = q * (m \div q) + (m % q) /\ m % q \in 0..(q - 1)
  BY <1>1
<1>3. First(b, n, q) = m \div q
  BY DEF First, m
<1>4. q * (m \div q) = First(b, n, q) * q
  BY <1>2, <1>3
<1>5. First(b, n, q) * q \in Nat
  BY <1>2, <1>3
<1>6. QED
  BY <1>1, <1>2, <1>3, <1>4, <1>5 DEF m

LEMMA BucketIs ==
  ASSUME NEW n \in Nat, NEW q \in Nat, q > 0, NEW k \in 0..(n - 1)
  PROVE  /\ Bucket(k, n, q) \in 0..(q - 1)
         /\ Bucket(k, n, q) * n <= k * q
         /\ k * q < (Bucket(k, n, q) + 1) * n
<1> DEFINE m == k * q
           d == m \div n
<1>1. n > 0 /\ k \in Nat /\ m \in Nat /\ k < n
  OBVIOUS
<1>2. m < q * n
  <2>1. k * q < n * q
    BY <1>1, TimesGrows
  <2>2. QED
    BY <2>1
<1> HIDE DEF m
<1>3. d \in Nat /\ m = n * d + (m % n) /\ m % n \in 0..(n - 1)
  BY <1>1
<1> HIDE DEF d
<1>4. n * d \in Nat /\ n * d <= m /\ m < n * d + n
  BY <1>1, <1>3
<1>5. d < q
  <2>1. d * n = n * d /\ d * n < q * n
    BY <1>1, <1>2, <1>3, <1>4
  <2>2. QED
    BY <1>1, <1>3, <2>1, TimesOrder
<1>6. Bucket(k, n, q) = d
  BY <1>5 DEF Bucket, d, m
<1>7. (d + 1) * n = n * d + n /\ d * n = n * d
  BY <1>1, <1>3
<1>8. QED
  BY <1>3, <1>4, <1>5, <1>6, <1>7 DEF m

(* The indexes of a bucket follow each other. *)
LEMMA BucketRun ==
  ASSUME NEW n \in Nat, NEW q \in Nat, q > 0, NEW b \in 0..(q - 1)
  PROVE  {k \in 0..(n - 1) : Bucket(k, n, q) = b} = First(b, n, q)..(First(b + 1, n, q) - 1)
<1> DEFINE lo == First(b, n, q)
           hi == First(b + 1, n, q)
<1>1. b \in Nat /\ b + 1 \in Nat /\ b * n \in Nat /\ (b + 1) * n \in Nat /\ b + 1 <= q
  OBVIOUS
<1>2. /\ lo \in Nat /\ b * n <= lo * q /\ lo * q < b * n + q
      /\ hi \in Nat /\ (b + 1) * n <= hi * q /\ hi * q < (b + 1) * n + q
  BY <1>1, FirstIs
<1> HIDE DEF lo, hi
<1>3. /\ (lo - 1) * q = lo * q - q /\ (hi - 1) * q = hi * q - q
      /\ lo * q \in Int /\ hi * q \in Int
  BY <1>2
<1>4. ASSUME NEW k \in 0..(n - 1), Bucket(k, n, q) = b PROVE k \in lo..(hi - 1)
  <2>1. b * n <= k * q /\ k * q < (b + 1) * n /\ k * q \in Int /\ k \in Int
    BY <1>4, BucketIs
  <2>2. (lo - 1) * q < k * q /\ k * q < hi * q
    BY <1>1, <1>2, <1>3, <2>1
  <2>3. lo - 1 < k
    BY <1>2, <2>1, <2>2, TimesOrder
  <2>4. k < hi
    BY <1>2, <2>1, <2>2, TimesOrder
  <2>5. QED
    BY <1>2, <2>1, <2>3, <2>4
<1>5. ASSUME NEW k \in lo..(hi - 1) PROVE k \in 0..(n - 1) /\ Bucket(k, n, q) = b
  <2>1. k \in Nat /\ k * q \in Nat /\ lo <= k /\ k <= hi - 1 /\ hi - 1 \in Int
    BY <1>2
  <2>2. lo * q <= k * q /\ k * q <= (hi - 1) * q
    BY <1>2, <2>1, TimesOrder
  <2>3. b * n <= k * q /\ k * q < (b + 1) * n
    BY <1>1, <1>2, <1>3, <2>1, <2>2
  <2>4. n > 0
    <3>1. SUFFICES ASSUME n = 0 PROVE FALSE
      OBVIOUS
    <3>2. (b + 1) * n = 0
      BY <1>1, <3>1
    <3>3. QED
      BY <2>1, <2>3, <3>2
  <2>5. k < n
    <3>1. (b + 1) * n <= q * n /\ q * n = n * q /\ q * n \in Int
      BY <1>1, <2>4, TimesOrder
    <3>2. k * q < n * q
      BY <1>1, <2>1, <2>3, <3>1
    <3>3. QED
      BY <2>1, <3>2, TimesOrder
  <2>6. k \in 0..(n - 1)
    BY <2>1, <2>5
  <2> DEFINE d == Bucket(k, n, q)
  <2>7. d \in 0..(q - 1) /\ d * n <= k * q /\ k * q < (d + 1) * n
    BY <2>6, BucketIs
  <2> HIDE DEF d
  <2>8. d \in Nat /\ d * n \in Int /\ (d + 1) * n \in Int
    BY <2>7
  <2>9. b * n < (d + 1) * n /\ d * n < (b + 1) * n
    BY <1>1, <2>1, <2>3, <2>7, <2>8
  <2>10. b < d + 1 /\ d < b + 1
    BY <1>1, <2>4, <2>8, <2>9, TimesOrder
  <2>11. d = b
    BY <1>1, <2>8, <2>10
  <2>12. QED
    BY <2>6, <2>11 DEF d
<1>6. QED
  BY <1>4, <1>5 DEF lo, hi

(* Buckets differ by one at most. *)
LEMMA BucketSizes ==
  ASSUME NEW n \in Nat, NEW q \in Nat, q > 0, NEW b \in 0..(q - 1), NEW c \in 0..(q - 1)
  PROVE  /\ First(b, n, q) <= First(b + 1, n, q)
         /\ First(b + 1, n, q) - First(b, n, q)
              <= First(c + 1, n, q) - First(c, n, q) + 1
<1> DEFINE lo(x) == First(x, n, q)
           hi(x) == First(x + 1, n, q)
<1>1. \A x \in 0..(q - 1) :
        /\ lo(x) \in Nat /\ x * n <= lo(x) * q /\ lo(x) * q < x * n + q
        /\ hi(x) \in Nat /\ (x + 1) * n <= hi(x) * q /\ hi(x) * q < (x + 1) * n + q
        /\ x * n \in Nat /\ (x + 1) * n = x * n + n
        /\ lo(x) * q \in Nat /\ hi(x) * q \in Nat
  <2> SUFFICES ASSUME NEW x \in 0..(q - 1)
               PROVE  /\ lo(x) \in Nat /\ x * n <= lo(x) * q /\ lo(x) * q < x * n + q
                      /\ hi(x) \in Nat /\ (x + 1) * n <= hi(x) * q /\ hi(x) * q < (x + 1) * n + q
                      /\ x * n \in Nat /\ (x + 1) * n = x * n + n
                      /\ lo(x) * q \in Nat /\ hi(x) * q \in Nat
    OBVIOUS
  <2>1. x \in Nat /\ x + 1 \in Nat
    OBVIOUS
  <2>2. /\ lo(x) \in Nat /\ x * n <= lo(x) * q /\ lo(x) * q < x * n + q
        /\ hi(x) \in Nat /\ (x + 1) * n <= hi(x) * q /\ hi(x) * q < (x + 1) * n + q
    BY <2>1, FirstIs
  <2> HIDE DEF lo, hi
  <2>3. QED
    BY <2>1, <2>2
<1> HIDE DEF lo, hi
<1>2. lo(b) <= hi(b)
  <2>1. (hi(b) + 1) * q = hi(b) * q + q
    BY <1>1
  <2>2. lo(b) * q < (hi(b) + 1) * q
    BY <1>1, <2>1
  <2>3. lo(b) < hi(b) + 1
    BY <1>1, <2>2, TimesOrder
  <2>4. QED
    BY <1>1, <2>3
<1>3. hi(b) - lo(b) <= hi(c) - lo(c) + 1
  <2> DEFINE x == hi(b) + lo(c)
             y == hi(c) + lo(b) + 2
  <2>1. x \in Int /\ y \in Int
    BY <1>1
  <2>2. /\ x * q = hi(b) * q + lo(c) * q
        /\ y * q = hi(c) * q + lo(b) * q + 2 * q
    BY <1>1
  <2>3. x * q < y * q
    BY <1>1, <2>2
  <2> HIDE DEF x, y
  <2>4. x < y
    BY <2>1, <2>3, TimesOrder
  <2>5. QED
    BY <1>1, <2>4 DEF x, y
<1>4. QED
  BY <1>2, <1>3 DEF lo, hi

(* A date's buckets are disjoint, hold every pair, and as many as their     *)
(* indexes are.                                                             *)
LEMMA BucketHolds ==
  ASSUME NEW v \in Numbered, NEW w \in Numbered, NEW q \in Nat, q > 0,
         NEW b \in 0..(q - 1)
  PROVE  LET n == Cardinality(Both(v, w))
         IN  Cardinality(QuantileReturns(v, w, q)[b]) = First(b + 1, n, q) - First(b, n, q)
<1> DEFINE S == Both(v, w)
           n == Cardinality(S)
           ranks == OrdinalRanks(Paired(v, w))
           part == QuantileReturns(v, w, q)[b]
           run == First(b, n, q)..(First(b + 1, n, q) - 1)
           place == [i \in part |-> ranks[i]]
<1>1. /\ IsFiniteSet(S) /\ n \in Nat /\ ranks \in Bijection(S, 0..(n - 1))
  BY PairedIs, FiniteIsNumber, OrdinalsRank DEF Ranked
<1>2. part = {i \in S : Bucket(ranks[i], n, q) = b}
  BY DEF QuantileReturns
<1>3. {k \in 0..(n - 1) : Bucket(k, n, q) = b} = run
  BY <1>1, BucketRun
<1> HIDE DEF S, n, ranks, run, part
<1>4. /\ \A i \in S : ranks[i] \in 0..(n - 1)
      /\ \A i, j \in S : ranks[i] = ranks[j] => i = j
      /\ \A k \in 0..(n - 1) : \E i \in S : ranks[i] = k
  BY <1>1 DEF Bijection, Injection, Surjection, IsInjective
<1>5. place \in Bijection(part, run)
  <2>1. \A k : k \in run <=> k \in 0..(n - 1) /\ Bucket(k, n, q) = b
    BY <1>3
  <2>2. place \in [part -> run]
    BY <1>2, <1>4, <2>1
  <2>3. \A i, j \in part : place[i] = place[j] => i = j
    BY <1>2, <1>4
  <2>4. \A k \in run : \E i \in part : place[i] = k
    BY <1>2, <1>4, <2>1
  <2>5. QED
    BY <2>2, <2>3, <2>4 DEF Bijection, Injection, Surjection, IsInjective
<1>6. IsFiniteSet(part)
  <2>1. part \in SUBSET S
    BY <1>2
  <2>2. QED
    BY <1>1, <2>1, FS_Subset
<1>7. Cardinality(run) = Cardinality(part)
  BY <1>5, <1>6, FS_Bijection DEF ExistsBijection
<1>8. Cardinality(run) = First(b + 1, n, q) - First(b, n, q)
  <2> DEFINE lo == First(b, n, q)
             hi == First(b + 1, n, q)
  <2>1. b \in Nat /\ b + 1 \in Nat
    OBVIOUS
  <2>2. lo \in Nat /\ hi \in Nat
    BY <1>1, <2>1, FirstIs
  <2>3. lo <= hi
    BY <1>1, BucketSizes
  <2> HIDE DEF lo, hi
  <2>4. Cardinality(lo..(hi - 1)) = IF lo > hi - 1 THEN 0 ELSE hi - 1 - lo + 1
    BY <2>2, FS_Interval
  <2>5. Cardinality(lo..(hi - 1)) = hi - lo
    BY <2>2, <2>3, <2>4
  <2>6. QED
    BY <2>5 DEF lo, hi, run
<1>9. QED
  BY <1>7, <1>8 DEF n, S, part

LEMMA BucketsHold ==
  ASSUME NEW v \in Numbered, NEW w \in Numbered, NEW q \in Nat, q > 0
  PROVE  BucketsAreEven(v, w, q)
<1> DEFINE S == Both(v, w)
           n == Cardinality(S)
           ranks == OrdinalRanks(Paired(v, w))
           parts == QuantileReturns(v, w, q)
           count == [b \in 0..(q - 1) |-> Cardinality(parts[b])]
<1>1. /\ Ranked(Paired(v, w)) /\ Finite(Paired(v, w)) = S
      /\ IsFiniteSet(S) /\ n \in Nat
      /\ \A i \in S : Paired(v, w)[i] = v[i] /\ v[i] \in Int
  BY PairedIs, FiniteIsNumber, OrdinalsRank
<1>2. \A i \in S : ranks[i] \in 0..(n - 1)
  BY <1>1 DEF Ranked, Bijection, Injection
<1>3. \A i \in S : Bucket(ranks[i], n, q) \in 0..(q - 1)
  BY <1>1, <1>2, BucketIs
<1>4. \A b \in 0..(q - 1) : parts[b] = {i \in S : Bucket(ranks[i], n, q) = b}
  BY DEF QuantileReturns
<1>5. \A b \in 0..(q - 1) : IsFiniteSet(parts[b])
  <2> SUFFICES ASSUME NEW b \in 0..(q - 1) PROVE IsFiniteSet(parts[b])
    OBVIOUS
  <2>1. parts[b] \in SUBSET S
    BY <1>4
  <2>2. QED
    BY <1>1, <2>1, FS_Subset
<1>6. SumOver(count, 0..(q - 1)) = n
  <2> DEFINE ones == [i \in S |-> 1]
             C == 0..(q - 1)
  <2>1. SumOver(ones, S) = n
    <3>1. \A i \in S : ones[i] = 1
      OBVIOUS
    <3> HIDE DEF ones, S
    <3>2. QED
      BY <1>1, <3>1, CountIsSum DEF n
  <2>2. \A b \in C : count[b] = SumOver(ones, parts[b])
    <3> SUFFICES ASSUME NEW b \in C PROVE Cardinality(parts[b]) = SumOver(ones, parts[b])
      OBVIOUS
    <3>1. \A i \in parts[b] : ones[i] = 1
      BY <1>4
    <3>2. IsFiniteSet(parts[b])
      BY <1>5
    <3> HIDE DEF ones, parts
    <3>3. QED
      BY <3>1, <3>2, CountIsSum
  <2>3. IsFiniteSet(C)
    BY FS_Interval
  <2>4. \A b, e \in C : b # e => parts[b] \cap parts[e] = {}
    BY <1>4
  <2>5. \A i : i \in S <=> \E b \in C : i \in parts[b]
    <3> HIDE DEF parts, S, ranks, n
    <3>1. QED
      BY <1>3, <1>4
  <2>6. \A i \in S : ones[i] \in Nat
    OBVIOUS
  <2> HIDE DEF ones, C, parts, S, count, n
  <2>7. SumOver(count, C) = SumOver(ones, S)
    BY <1>1, <2>2, <2>3, <2>4, <2>5, <2>6, SumGrouped
  <2>8. QED
    BY <2>1, <2>7 DEF C
<1>7. ASSUME NEW b \in 0..(q - 1), NEW c \in 0..(q - 1) PROVE count[b] <= count[c] + 1
  <2>1. /\ count[b] = First(b + 1, n, q) - First(b, n, q)
        /\ count[c] = First(c + 1, n, q) - First(c, n, q)
    BY BucketHolds
  <2>2. QED
    BY <1>1, <2>1, BucketSizes
<1>8. ASSUME NEW i \in S, NEW j \in S, v[i] < v[j]
      PROVE  Bucket(ranks[i], n, q) <= Bucket(ranks[j], n, q)
  <2> DEFINE k == ranks[i]
             m == ranks[j]
             d == Bucket(k, n, q)
             e == Bucket(m, n, q)
  <2>1. k < m
    <3>1. Before(Paired(v, w), i, j)
      BY <1>1, <1>8 DEF Before
    <3>2. QED
      BY <1>1, <3>1 DEF Ranked
  <2>2. k \in 0..(n - 1) /\ m \in 0..(n - 1)
    BY <1>2
  <2> HIDE DEF k, m, n
  <2>3. /\ d \in 0..(q - 1) /\ d * n <= k * q /\ k * q < (d + 1) * n
        /\ e \in 0..(q - 1) /\ e * n <= m * q /\ m * q < (e + 1) * n
    BY <1>1, <2>2, BucketIs
  <2> HIDE DEF d, e
  <2>4. k * q < m * q /\ n > 0 /\ k * q \in Int /\ m * q \in Int
    BY <1>1, <2>1, <2>2, TimesOrder
  <2>5. d \in Int /\ e + 1 \in Int /\ d * n \in Int /\ (e + 1) * n \in Int
    BY <1>1, <2>3
  <2>6. d * n < (e + 1) * n
    BY <2>3, <2>4, <2>5
  <2>7. d < e + 1
    BY <1>1, <2>4, <2>5, <2>6, TimesOrder
  <2>8. d <= e
    BY <2>3, <2>7
  <2>9. QED
    BY <2>8 DEF d, e, k, m, n
<1>9. QED
  BY <1>6, <1>7, <1>8 DEF BucketsAreEven

-----------------------------------------------------------------------------
(* Rank correlation *)

LEMMA SquaresNotNegative == \A x \in Int : x * x >= 0
<1> SUFFICES ASSUME NEW x \in Int PROVE x * x >= 0
  OBVIOUS
<1>1. CASE x >= 0
  BY <1>1
<1>2. CASE x < 0
  <2>1. x * x = (-x) * (-x) /\ -x > 0
    BY <1>2
  <2>2. QED
    BY <2>1
<1>3. QED
  BY <1>1, <1>2

LEMMA SignOfProduct ==
  ASSUME NEW n \in Int, n > 0, NEW x \in Int, n * x >= 0 PROVE x >= 0
<1>1. SUFFICES ASSUME x < 0 PROVE FALSE
  OBVIOUS
<1>2. PICK d \in Nat : x = -d /\ d > 0
  <2>1. -x \in Nat /\ x = -(-x) /\ -x > 0
    BY <1>1
  <2>2. QED
    BY <2>1
<1>3. n * d > 0 /\ n * x = -(n * d)
  BY <1>2
<1>4. QED
  BY <1>3

(* The square of a sum is at most the sum of the squares times their number *)
(* when a number joins.                                                     *)
LEMMA SquareJoins ==
  ASSUME NEW n \in Nat, NEW A \in Int, NEW B \in Int, NEW z \in Int,
         A >= 0, n * A >= B * B
  PROVE  A + z * z >= 0 /\ (n + 1) * (A + z * z) >= (B + z) * (B + z)
<1>1. z * z >= 0 /\ z * z \in Int /\ B * B \in Int /\ B * B >= 0
  BY SquaresNotNegative
<1>2. /\ (n + 1) * (A + z * z) = n * A + A + n * (z * z) + z * z
      /\ (B + z) * (B + z) = B * B + 2 * (B * z) + z * z
  OBVIOUS
<1> DEFINE x == A + n * (z * z) - 2 * (B * z)
<1>3. x \in Int
  OBVIOUS
<1>4. x >= 0
  <2>1. CASE n = 0
    <3>1. B * B = 0
      BY <1>1, <2>1
    <3>2. B = 0
      BY <3>1
    <3>3. QED
      BY <2>1, <3>2
  <2>2. CASE n > 0
    <3>1. n * x = n * A + n * (n * (z * z)) - 2 * (n * (B * z))
      OBVIOUS
    <3>2. (B - n * z) * (B - n * z) = B * B + n * (n * (z * z)) - 2 * (n * (B * z))
      OBVIOUS
    <3>3. (B - n * z) * (B - n * z) >= 0
      BY SquaresNotNegative
    <3> DEFINE p == n * (n * (z * z))
               r == n * (B * z)
               s == n * A
               t == B * B
    <3>4. p \in Int /\ r \in Int /\ s \in Int /\ t \in Int
      OBVIOUS
    <3>5. n * x = s + p - 2 * r /\ t + p - 2 * r >= 0 /\ s >= t
      BY <3>1, <3>2, <3>3
    <3> HIDE DEF p, r, s, t, x
    <3>6. n * x >= 0
      BY <3>4, <3>5
    <3>7. QED
      BY <1>3, <2>2, <3>6, SignOfProduct
  <2>3. QED
    BY <2>1, <2>2
<1>5. n * A \in Int /\ n * (z * z) \in Int /\ B * z \in Int
  OBVIOUS
<1>6. (n + 1) * (A + z * z) - (B + z) * (B + z) = (n * A - B * B) + x
  BY <1>2
<1>7. QED
  <2> DEFINE l == (n + 1) * (A + z * z)
             m == (B + z) * (B + z)
             k == n * A - B * B
  <2>1. l \in Int /\ m \in Int /\ k \in Int /\ k >= 0 /\ l - m = k + x
    BY <1>1, <1>5, <1>6
  <2> HIDE DEF l, m, k, x
  <2>2. l >= m
    BY <1>3, <1>4, <2>1
  <2>3. QED
    BY <1>1, <2>2 DEF l, m

(* A quadratic form that is never negative has no positive discriminant. *)
LEMMA Discriminant ==
  ASSUME NEW dx \in Int, NEW dy \in Int, NEW num \in Int,
         \A a, b \in Int : a * a * dx + 2 * (a * b * num) + b * b * dy >= 0
  PROVE  num * num <= dx * dy
<1>1. 0 * 0 * dx + 2 * (0 * 1 * num) + 1 * 1 * dy >= 0
  OBVIOUS
<1>2. dy >= 0
  BY <1>1
<1>3. CASE dy > 0
  <2> DEFINE x == dx * dy - num * num
  <2>1. -num \in Int
    OBVIOUS
  <2>2. dy * dy * dx + 2 * (dy * (-num) * num) + (-num) * (-num) * dy >= 0
    BY <2>1
  <2>3. dy * x = dy * dy * dx + 2 * (dy * (-num) * num) + (-num) * (-num) * dy
    OBVIOUS
  <2>4. x \in Int /\ dy * x >= 0
    BY <2>2, <2>3
  <2> HIDE DEF x
  <2>5. x >= 0
    BY <1>3, <2>4, SignOfProduct
  <2> DEFINE l == num * num
             m == dx * dy
  <2>6. l \in Int /\ m \in Int /\ x = m - l
    BY DEF x
  <2> HIDE DEF l, m
  <2>7. l <= m
    BY <2>4, <2>5, <2>6
  <2>8. QED
    BY <2>7 DEF l, m
<1>4. CASE dy = 0
  <2> DEFINE k == num * num
             b == -(num * (dx + 1))
  <2>1. k \in Int /\ k >= 0 /\ b \in Int
    BY SquaresNotNegative
  <2>3. 1 * b * num = -((dx + 1) * k)
    OBVIOUS
  <2> HIDE DEF b
  <2>2. 1 * 1 * dx + 2 * (1 * b * num) + b * b * dy >= 0
    <3>1. PICK one \in Int : one = 1
      OBVIOUS
    <3>2. one * one * dx + 2 * (one * b * num) + b * b * dy >= 0
      BY <2>1
    <3>3. QED
      BY <3>1, <3>2
  <2>4. b * b * dy = 0
    BY <1>4, <2>1
  <2>5. dx - 2 * ((dx + 1) * k) >= 0
    BY <2>2, <2>3, <2>4
  <2>6. 1 * 1 * dx + 2 * (1 * 0 * num) + 0 * 0 * dy >= 0
    OBVIOUS
  <2>7. dx >= 0
    BY <1>4, <2>6
  <2> HIDE DEF k
  <2>8. k = 0
    <3>1. SUFFICES ASSUME k >= 1 PROVE FALSE
      BY <2>1
    <3>2. PICK j \in Nat : k = j + 1
      <4>1. k - 1 \in Nat /\ k = (k - 1) + 1
        BY <2>1, <3>1
      <4>2. QED
        BY <4>1
    <3>3. (dx + 1) * k = dx + 1 + (dx + 1) * j /\ (dx + 1) * j >= 0
      BY <2>7, <3>2
    <3>4. QED
      BY <2>5, <2>7, <3>3
  <2>9. num * num = 0 /\ dx * dy = 0
    BY <1>4, <2>8 DEF k
  <2>10. QED
    BY <2>9
<1>5. QED
  BY <1>2, <1>3, <1>4

(* The products of two functions on a finite set, when an element joins. *)
LEMMA DotJoins ==
  ASSUME NEW D, IsFiniteSet(D), NEW e \in D, NEW x, NEW y,
         \A i \in D : x[i] \in Nat /\ y[i] \in Nat
  PROVE  /\ Dot(x, y, D) = Dot(x, y, D \ {e}) + x[e] * y[e]
         /\ Dot(x, y, D \ {e}) \in Nat
<1> DEFINE E == D \ {e}
           f == [i \in D |-> x[i] * y[i]]
           g == [i \in E |-> x[i] * y[i]]
<1>1. \A i \in D : f[i] \in Nat
  OBVIOUS
<1>2. f[e] = x[e] * y[e] /\ \A i \in E : f[i] = g[i]
  OBVIOUS
<1>3. Dot(x, y, D) = SumOver(f, D) /\ Dot(x, y, E) = SumOver(g, E)
  BY DEF Dot
<1> HIDE DEF f, g
<1>4. SumOver(f, D) = SumOver(f, E) + f[e] /\ SumOver(f, E) \in Nat
  BY <1>1, SumSplit
<1>5. SumOver(f, E) = SumOver(g, E)
  BY <1>2, SumSame
<1>6. QED
  BY <1>2, <1>3, <1>4, <1>5

LEMMA DotType ==
  ASSUME NEW D, IsFiniteSet(D), NEW x, NEW y, \A i \in D : x[i] \in Nat /\ y[i] \in Nat
  PROVE  Dot(x, y, D) \in Nat
<1> DEFINE f == [i \in D |-> x[i] * y[i]]
<1>1. \A i \in D : f[i] \in Nat
  OBVIOUS
<1> HIDE DEF f
<1>2. SumOver(f, D) \in Nat
  BY <1>1, SumType
<1>3. QED
  BY <1>2 DEF Dot, f

LEMMA DotEmpty ==
  ASSUME NEW x, NEW y PROVE Dot(x, y, {}) = 0
BY SumEmpty DEF Dot

(* The sum of the squares of a * x + b * y, and the sum of a * x + b * y. *)
Squares(a, b, x, y, D) ==
  a * a * Dot(x, x, D) + 2 * (a * b * Dot(x, y, D)) + b * b * Dot(y, y, D)

Line(a, b, x, y, D) == a * SumOver(x, D) + b * SumOver(y, D)

Spread(a, b, x, y, D) ==
  /\ Squares(a, b, x, y, D) >= 0
  /\ Cardinality(D) * Squares(a, b, x, y, D) >= Line(a, b, x, y, D) * Line(a, b, x, y, D)

LEMMA SpreadJoins ==
  ASSUME NEW D, IsFiniteSet(D), NEW e \in D, NEW x, NEW y,
         \A i \in D : x[i] \in Nat /\ y[i] \in Nat,
         NEW a \in Int, NEW b \in Int, Spread(a, b, x, y, D \ {e})
  PROVE  Spread(a, b, x, y, D)
<1> DEFINE E == D \ {e}
           n == Cardinality(E)
           z == a * x[e] + b * y[e]
           A == Squares(a, b, x, y, E)
           B == Line(a, b, x, y, E)
<1>1. IsFiniteSet(E) /\ n \in Nat /\ Cardinality(D) = n + 1 /\ x[e] \in Nat /\ y[e] \in Nat
  <2>1. IsFiniteSet(E) /\ Cardinality(E) = Cardinality(D) - 1
    BY FS_RemoveElement
  <2>2. Cardinality(D) \in Nat /\ Cardinality(E) \in Nat
    BY <2>1, FS_CardinalityType
  <2>3. QED
    BY <2>1, <2>2
<1>2. /\ Dot(x, x, D) = Dot(x, x, E) + x[e] * x[e] /\ Dot(x, x, E) \in Nat
      /\ Dot(x, y, D) = Dot(x, y, E) + x[e] * y[e] /\ Dot(x, y, E) \in Nat
      /\ Dot(y, y, D) = Dot(y, y, E) + y[e] * y[e] /\ Dot(y, y, E) \in Nat
  <2>1. Dot(x, x, D) = Dot(x, x, E) + x[e] * x[e] /\ Dot(x, x, E) \in Nat
    BY DotJoins
  <2>2. Dot(x, y, D) = Dot(x, y, E) + x[e] * y[e] /\ Dot(x, y, E) \in Nat
    BY DotJoins
  <2>3. Dot(y, y, D) = Dot(y, y, E) + y[e] * y[e] /\ Dot(y, y, E) \in Nat
    BY DotJoins
  <2>4. QED
    BY <2>1, <2>2, <2>3
<1>3. /\ SumOver(x, D) = SumOver(x, E) + x[e] /\ SumOver(x, E) \in Nat
      /\ SumOver(y, D) = SumOver(y, E) + y[e] /\ SumOver(y, E) \in Nat
  BY SumSplit
<1>4. A \in Int /\ B \in Int /\ z \in Int
  BY <1>1, <1>2, <1>3 DEF Squares, Line
<1>5. Squares(a, b, x, y, D) = A + z * z
  BY <1>1, <1>2 DEF Squares
<1>6. Line(a, b, x, y, D) = B + z
  BY <1>1, <1>3 DEF Line
<1> HIDE DEF n, z, A, B
<1>7. A >= 0 /\ n * A >= B * B
  BY DEF Spread, n, A, B
<1>8. A + z * z >= 0 /\ (n + 1) * (A + z * z) >= (B + z) * (B + z)
  BY <1>1, <1>4, <1>7, SquareJoins
<1>9. QED
  BY <1>1, <1>5, <1>6, <1>8 DEF Spread

LEMMA SpreadHolds ==
  ASSUME NEW S, IsFiniteSet(S), NEW x, NEW y, \A i \in S : x[i] \in Nat /\ y[i] \in Nat,
         NEW a \in Int, NEW b \in Int
  PROVE  Spread(a, b, x, y, S)
<1> DEFINE N == Cardinality(S)
           Holds(m) == \A D \in SUBSET S : Cardinality(D) = m => Spread(a, b, x, y, D)
           good == {m \in 0..N : Holds(m)}
<1>1. /\ N \in Nat
      /\ \A D \in SUBSET S : IsFiniteSet(D) /\ Cardinality(D) \in Nat
  BY FS_Subset, FS_CardinalityType
<1>2. 0 \in good
  <2>1. ASSUME NEW D \in SUBSET S, Cardinality(D) = 0 PROVE Spread(a, b, x, y, D)
    <3>1. D = {}
      BY <1>1, <2>1, FS_EmptySet
    <3>2. /\ Dot(x, x, D) = 0 /\ Dot(x, y, D) = 0 /\ Dot(y, y, D) = 0
          /\ SumOver(x, D) = 0 /\ SumOver(y, D) = 0
      BY <3>1, DotEmpty, SumEmpty
    <3>3. Squares(a, b, x, y, D) = 0 /\ Line(a, b, x, y, D) = 0
      BY <3>2 DEF Squares, Line
    <3>4. QED
      BY <2>1, <3>3 DEF Spread
  <2>2. Holds(0)
    BY <2>1
  <2> HIDE DEF Holds, N
  <2>3. QED
    BY <1>1, <2>2
<1>3. ASSUME NEW m \in 1..N, m - 1 \in good PROVE m \in good
  <2>1. ASSUME NEW D \in SUBSET S, Cardinality(D) = m PROVE Spread(a, b, x, y, D)
    <3>1. IsFiniteSet(D) /\ D # {}
      BY <1>1, <2>1, FS_EmptySet
    <3>2. PICK e \in D : TRUE
      BY <3>1
    <3> DEFINE E == D \ {e}
    <3>3. E \in SUBSET S /\ Cardinality(E) = m - 1
      <4>1. Cardinality(E) = Cardinality(D) - 1
        BY <3>1, FS_RemoveElement
      <4>2. QED
        BY <2>1, <4>1
    <3>4. Spread(a, b, x, y, E)
      BY <1>3, <3>3
    <3>5. \A i \in D : x[i] \in Nat /\ y[i] \in Nat
      OBVIOUS
    <3>6. QED
      BY <3>1, <3>4, <3>5, SpreadJoins
  <2>2. Holds(m)
    BY <2>1
  <2> HIDE DEF Holds, N
  <2>3. QED
    BY <1>1, <2>2
<1>4. N \in good
  <2> HIDE DEF good, N
  <2>1. \A m \in 0..N : m \in good
    BY <1>1, <1>2, <1>3, Climb
  <2>2. QED
    BY <1>1, <2>1
<1>5. QED
  BY <1>4

(* pearson never leaves [-1, 1]. *)
LEMMA PearsonBounded ==
  ASSUME NEW S, IsFiniteSet(S), NEW x, NEW y, \A i \in S : x[i] \in Nat /\ y[i] \in Nat
  PROVE  Pearson(x, y, S).num * Pearson(x, y, S).num <= Pearson(x, y, S).dx * Pearson(x, y, S).dy
<1> DEFINE n == Cardinality(S)
           sx == SumOver(x, S)
           sy == SumOver(y, S)
           xx == Dot(x, x, S)
           xy == Dot(x, y, S)
           yy == Dot(y, y, S)
           dx == n * xx - sx * sx
           dy == n * yy - sy * sy
           num == n * xy - sx * sy
<1>1. /\ n \in Nat /\ sx \in Nat /\ sy \in Nat
      /\ xx \in Nat /\ xy \in Nat /\ yy \in Nat
  BY FS_CardinalityType, SumType, DotType
<1>2. ASSUME NEW a \in Int, NEW b \in Int
      PROVE  a * a * dx + 2 * (a * b * num) + b * b * dy >= 0
  <2> DEFINE A == a * a * xx + 2 * (a * b * xy) + b * b * yy
             B == a * sx + b * sy
  <2>1. n * A >= B * B
    BY SpreadHolds DEF Spread, Squares, Line
  <2> HIDE DEF n, sx, sy, xx, xy, yy
  <2>2. n * A - B * B = a * a * dx + 2 * (a * b * num) + b * b * dy
    BY <1>1
  <2>3. n * A \in Int /\ B * B \in Int
    BY <1>1
  <2> DEFINE k == n * A
             l == B * B
  <2>4. k >= l /\ k \in Int /\ l \in Int
    BY <2>1, <2>3
  <2> HIDE DEF A, B, k, l
  <2>5. k - l >= 0
    BY <2>4
  <2>6. QED
    BY <2>2, <2>5 DEF k, l
<1>3. dx \in Int /\ dy \in Int /\ num \in Int
  BY <1>1
<1>4. Pearson(x, y, S) = [num |-> num, dx |-> dx, dy |-> dy]
  BY DEF Pearson
<1> HIDE DEF dx, dy, num
<1>5. num * num <= dx * dy
  BY <1>2, <1>3, Discriminant
<1>6. QED
  BY <1>4, <1>5

-----------------------------------------------------------------------------
(* Without ties *)

LEMMA SumTwice ==
  ASSUME NEW S, IsFiniteSet(S), NEW f, NEW h, \A i \in S : f[i] \in Nat /\ h[i] = 2 * f[i]
  PROVE  SumOver(h, S) = 2 * SumOver(f, S) /\ SumOver(f, S) \in Nat
<1>1. \A i \in S : f[i] \in Nat /\ f[i] \in Nat /\ h[i] = f[i] + f[i]
  OBVIOUS
<1>2. SumOver(h, S) = SumOver(f, S) + SumOver(f, S)
  BY <1>1, SumAdd
<1>3. SumOver(f, S) \in Nat
  BY SumType
<1>4. QED
  BY <1>2, <1>3

Squared == [k \in Nat |-> k * k]

LEMMA SumOfSquares ==
  ASSUME NEW n \in Nat
  PROVE  6 * SumOver(Squared, 0..(n - 1)) = n * (n - 1) * (2 * n - 1)
<1> DEFINE Run(m) == 0..(m - 1)
           good == {m \in 0..n :
                      /\ SumOver(Squared, Run(m)) \in Nat
                      /\ 6 * SumOver(Squared, Run(m)) = m * (m - 1) * (2 * m - 1)}
<1>1. 0 \in good
  <2>1. Run(0) = {}
    OBVIOUS
  <2>2. SumOver(Squared, Run(0)) = 0
    BY <2>1, SumEmpty
  <2>3. QED
    BY <2>2
<1>2. ASSUME NEW m \in 1..n, m - 1 \in good PROVE m \in good
  <2> DEFINE S == Run(m - 1)
             x == m - 1
  <2>1. Run(m) = S \cup {x} /\ x \notin S /\ x \in Nat /\ S \subseteq Nat
    OBVIOUS
  <2>2. IsFiniteSet(S)
    BY FS_Interval
  <2>3. Squared[x] = x * x /\ Squared[x] \in Nat /\ \A y \in S \cup {x} : Squared[y] \in Nat
    BY <2>1 DEF Squared
  <2>4. SumOver(Squared, S \cup {x}) = SumOver(Squared, S) + Squared[x]
    <3> HIDE DEF S, x
    <3>1. QED
      BY <2>1, <2>2, <2>3, SumInsert
  <2>5. /\ SumOver(Squared, S) \in Nat
        /\ 6 * SumOver(Squared, S) = (m - 1) * ((m - 1) - 1) * (2 * (m - 1) - 1)
    BY <1>2
  <2>6. SumOver(Squared, Run(m)) = SumOver(Squared, S) + (m - 1) * (m - 1)
    BY <2>1, <2>3, <2>4
  <2> HIDE DEF Run, S
  <2>7. (m - 1) * ((m - 1) - 1) * (2 * (m - 1) - 1) + 6 * ((m - 1) * (m - 1))
          = m * (m - 1) * (2 * m - 1)
    OBVIOUS
  <2>8. (m - 1) * (m - 1) \in Nat
    OBVIOUS
  <2>9. /\ SumOver(Squared, Run(m)) \in Nat
        /\ 6 * SumOver(Squared, Run(m))
             = (m - 1) * ((m - 1) - 1) * (2 * (m - 1) - 1) + 6 * ((m - 1) * (m - 1))
    BY <2>5, <2>6, <2>8
  <2>10. QED
    BY <2>7, <2>9
<1>3. n \in good
  <2> HIDE DEF good
  <2>1. \A m \in 0..n : m \in good
    BY <1>1, <1>2, Climb
  <2>2. QED
    BY <2>1
<1>4. QED
  BY <1>3

(* The sums of n ranks and of their squares. *)
AddUp(ranks, S) ==
  LET n == Cardinality(S)
  IN  /\ 2 * SumOver(ranks, S) = n * (n - 1)
      /\ 6 * Dot(ranks, ranks, S) = n * (n - 1) * (2 * n - 1)

LEMMA RanksAddUp ==
  ASSUME NEW v \in Numbered PROVE AddUp(OrdinalRanks(v), Finite(v))
<1> DEFINE S == Finite(v)
           n == Cardinality(S)
           ranks == OrdinalRanks(v)
           run == 0..(n - 1)
           squares == [i \in S |-> ranks[i] * ranks[i]]
<1>1. IsFiniteSet(S) /\ n \in Nat /\ ranks \in Bijection(S, run)
  BY FiniteIsNumber, OrdinalsRank DEF Ranked
<1>2. /\ \A i \in S : ranks[i] \in run
      /\ \A k \in run : Itself[k] = k /\ Squared[k] = k * k
      /\ \A k \in run : Itself[k] \in Nat /\ Squared[k] \in Nat
  BY <1>1 DEF Bijection, Injection, Itself, Squared
<1>3. \A i \in S : ranks[i] = Itself[ranks[i]] /\ squares[i] = Squared[ranks[i]]
  BY <1>2
<1> HIDE DEF S, n, ranks, run, squares
<1>4. SumOver(ranks, S) = SumOver(Itself, run)
  BY <1>1, <1>2, <1>3, SumReindex
<1>5. SumOver(squares, S) = SumOver(Squared, run)
  BY <1>1, <1>2, <1>3, SumReindex
<1>6. 2 * SumOver(Itself, run) = n * (n - 1)
  <2>1. 2 * SumOver(Itself, 0..(0 + n - 1)) = n * (2 * 0 + n - 1)
    BY <1>1, SumOfRun
  <2>2. 0 + n - 1 = n - 1 /\ 2 * 0 + n - 1 = n - 1
    BY <1>1
  <2>3. QED
    BY <2>1, <2>2 DEF run
<1>7. 6 * SumOver(Squared, run) = n * (n - 1) * (2 * n - 1)
  BY <1>1, SumOfSquares DEF run
<1>8. Dot(ranks, ranks, S) = SumOver(squares, S)
  BY DEF Dot, squares
<1>9. QED
  BY <1>4, <1>5, <1>6, <1>7, <1>8 DEF AddUp, S, n, ranks

LEMMA Untied ==
  ASSUME NEW v \in Numbered, \A i, j \in Finite(v) : i # j => v[i] # v[j],
         NEW i \in Finite(v)
  PROVE  AverageRanks(v)[i] = 2 * OrdinalRanks(v)[i] /\ OrdinalRanks(v)[i] \in Nat
<1> DEFINE ranks == OrdinalRanks(v)
           average == AverageRanks(v)[i]
<1>1. TiesOf(v, i) = {i}
  BY DEF TiesOf
<1>2. average * Cardinality({i}) = 2 * SumOver(ranks, {i})
  BY <1>1, TiesShare
<1>3. Cardinality({i}) = 1
  BY FS_Singleton
<1>4. ranks[i] \in Nat
  <2>1. ranks \in Bijection(Finite(v), 0..(Cardinality(Finite(v)) - 1))
    BY OrdinalsRank DEF Ranked
  <2>2. QED
    BY <2>1 DEF Bijection, Injection
<1>5. SumOver(ranks, {i}) = ranks[i]
  <2>1. SumOver(ranks, {i}) = Cardinality({i} \X (1..ranks[i]))
    <3>1. Units(ranks, {i}) = {i} \X (1..ranks[i])
      BY DEF Units
    <3>2. QED
      BY <3>1 DEF SumOver
  <2> HIDE DEF ranks
  <2>2. QED
    BY <1>4, <2>1, UnitsOfOne
<1>6. average \in Int
  <2> DEFINE L == {j \in Finite(v) : v[j] < v[i]}
             U == {j \in Finite(v) : v[j] <= v[i]}
  <2>1. IsFiniteSet(L) /\ IsFiniteSet(U)
    <3>1. L \in SUBSET Finite(v) /\ U \in SUBSET Finite(v)
      OBVIOUS
    <3> HIDE DEF L, U
    <3>2. QED
      BY <3>1, FiniteIsNumber, FS_Subset
  <2>2. average = Cardinality(L) + Cardinality(U) - 1
    BY DEF AverageRanks
  <2> HIDE DEF L, U, average
  <2>3. QED
    BY <2>1, <2>2, FS_CardinalityType
<1> HIDE DEF ranks, average
<1>7. average = 2 * ranks[i]
  BY <1>2, <1>3, <1>5, <1>6
<1>8. QED
  BY <1>4, <1>7 DEF ranks, average

(* The product of two doubled functions. *)
LEMMA DotTwice ==
  ASSUME NEW S, IsFiniteSet(S), NEW o, NEW u, NEW x, NEW y,
         \A i \in S : /\ o[i] \in Nat /\ u[i] \in Nat
                      /\ x[i] = 2 * o[i] /\ y[i] = 2 * u[i]
  PROVE  Dot(x, y, S) = 4 * Dot(o, u, S) /\ Dot(o, u, S) \in Nat
<1> DEFINE f == [i \in S |-> o[i] * u[i]]
           g == [i \in S |-> 2 * (o[i] * u[i])]
           h == [i \in S |-> x[i] * y[i]]
<1>1. \A i \in S : f[i] \in Nat /\ g[i] = 2 * f[i]
  OBVIOUS
<1>2. \A i \in S : g[i] \in Nat /\ h[i] = 2 * g[i]
  <2> SUFFICES ASSUME NEW i \in S PROVE g[i] \in Nat /\ h[i] = 2 * g[i]
    OBVIOUS
  <2>1. o[i] \in Nat /\ u[i] \in Nat /\ x[i] = 2 * o[i] /\ y[i] = 2 * u[i]
    OBVIOUS
  <2>2. x[i] * y[i] = 2 * (2 * (o[i] * u[i])) /\ o[i] * u[i] \in Nat
    BY <2>1
  <2>3. QED
    BY <2>2
<1> HIDE DEF f, g, h
<1>3. SumOver(g, S) = 2 * SumOver(f, S) /\ SumOver(f, S) \in Nat
  BY <1>1, SumTwice
<1>4. SumOver(h, S) = 2 * SumOver(g, S)
  BY <1>2, SumTwice
<1>5. SumOver(h, S) = 4 * SumOver(f, S)
  BY <1>3, <1>4
<1>6. QED
  BY <1>3, <1>5 DEF Dot, f, h

(* The squares of the differences of two functions. *)
LEMMA DotOfDifferences ==
  ASSUME NEW S, IsFiniteSet(S), NEW o, NEW u, NEW d,
         \A i \in S : o[i] \in Nat /\ u[i] \in Nat /\ d[i] = o[i] - u[i]
  PROVE  /\ Dot(o, o, S) + Dot(u, u, S) = Dot(d, d, S) + 2 * Dot(o, u, S)
         /\ Dot(d, d, S) \in Nat
<1> DEFINE oo == [i \in S |-> o[i] * o[i]]
           uu == [i \in S |-> u[i] * u[i]]
           dd == [i \in S |-> d[i] * d[i]]
           ou == [i \in S |-> o[i] * u[i]]
           tw == [i \in S |-> 2 * (o[i] * u[i])]
           all == [i \in S |-> o[i] * o[i] + u[i] * u[i]]
<1>1. \A i \in S : /\ oo[i] \in Nat /\ uu[i] \in Nat /\ all[i] = oo[i] + uu[i]
                   /\ ou[i] \in Nat /\ tw[i] = 2 * ou[i] /\ tw[i] \in Nat
  OBVIOUS
<1>2. \A i \in S : dd[i] \in Nat /\ all[i] = dd[i] + tw[i]
  <2> SUFFICES ASSUME NEW i \in S PROVE dd[i] \in Nat /\ all[i] = dd[i] + tw[i]
    OBVIOUS
  <2>1. o[i] \in Nat /\ u[i] \in Nat /\ d[i] = o[i] - u[i]
    OBVIOUS
  <2>2. d[i] * d[i] >= 0 /\ d[i] * d[i] \in Int
    BY <2>1, SquaresNotNegative
  <2>3. o[i] * o[i] + u[i] * u[i] = d[i] * d[i] + 2 * (o[i] * u[i])
    BY <2>1
  <2>4. QED
    BY <2>2, <2>3
<1> HIDE DEF oo, uu, dd, ou, tw, all
<1>3. SumOver(all, S) = SumOver(oo, S) + SumOver(uu, S)
  <2>1. \A i \in S : oo[i] \in Nat /\ uu[i] \in Nat /\ all[i] = oo[i] + uu[i]
    BY <1>1
  <2>2. QED
    BY <2>1, SumAdd
<1>4. SumOver(all, S) = SumOver(dd, S) + SumOver(tw, S)
  <2>1. \A i \in S : dd[i] \in Nat /\ tw[i] \in Nat /\ all[i] = dd[i] + tw[i]
    BY <1>1, <1>2
  <2>2. QED
    BY <2>1, SumAdd
<1>5. SumOver(tw, S) = 2 * SumOver(ou, S)
  BY <1>1, SumTwice
<1>6. SumOver(dd, S) \in Nat
  BY <1>2, SumType
<1>7. QED
  BY <1>3, <1>4, <1>5, <1>6 DEF Dot, oo, uu, dd, ou

LEMMA Textbook ==
  ASSUME NEW n \in Nat, NEW p \in Nat, NEW q \in Nat, NEW c \in Nat, NEW d \in Nat,
         2 * p = n * (n - 1), 6 * q = n * (n - 1) * (2 * n - 1), 2 * q = d + 2 * c
  PROVE  LET dx  == n * (4 * q) - (2 * p) * (2 * p)
             num == n * (4 * c) - (2 * p) * (2 * p)
         IN  num * (n * n * n - n) = dx * (n * n * n - n - 6 * d)
<1> DEFINE dx  == n * (4 * q) - (2 * p) * (2 * p)
           num == n * (4 * c) - (2 * p) * (2 * p)
           e == n * n * n - n
<1>1. num = dx - 2 * (n * d)
  <2>1. 4 * c = 4 * q - 2 * d
    OBVIOUS
  <2>2. n * (4 * c) = n * (4 * q) - 2 * (n * d)
    BY <2>1
  <2>3. QED
    BY <2>2
<1>2. 3 * dx = n * e
  <2>1. (2 * p) * (2 * p) = (n * (n - 1)) * (n * (n - 1))
    OBVIOUS
  <2>2. 3 * (n * (4 * q)) = 2 * (n * (6 * q))
    OBVIOUS
  <2>3. 3 * (n * (4 * q)) = 2 * (n * (n * (n - 1) * (2 * n - 1)))
    BY <2>2
  <2>4. 2 * (n * (n * (n - 1) * (2 * n - 1))) - 3 * ((n * (n - 1)) * (n * (n - 1))) = n * e
    OBVIOUS
  <2>5. 3 * dx = 3 * (n * (4 * q)) - 3 * ((2 * p) * (2 * p))
    OBVIOUS
  <2>6. QED
    BY <2>1, <2>3, <2>4, <2>5
<1>3. dx \in Int /\ num \in Int /\ e \in Int
  OBVIOUS
<1> HIDE DEF dx, num, e
<1>4. num * e = dx * e - 2 * (n * d * e)
  BY <1>1, <1>3
<1>5. dx * (e - 6 * d) = dx * e - 2 * ((3 * dx) * d)
  BY <1>3
<1>6. (3 * dx) * d = n * d * e
  BY <1>2, <1>3
<1>7. num * e = dx * (e - 6 * d)
  BY <1>4, <1>5, <1>6
<1>8. QED
  BY <1>7 DEF dx, num, e

LEMMA AverageType ==
  ASSUME NEW v \in Numbered, NEW i \in Finite(v) PROVE AverageRanks(v)[i] \in Nat
<1> DEFINE L == {j \in Finite(v) : v[j] < v[i]}
           U == {j \in Finite(v) : v[j] <= v[i]}
<1>1. IsFiniteSet(L) /\ IsFiniteSet(U)
  <2>1. L \in SUBSET Finite(v) /\ U \in SUBSET Finite(v)
    OBVIOUS
  <2> HIDE DEF L, U
  <2>2. QED
    BY <2>1, FiniteIsNumber, FS_Subset
<1>2. AverageRanks(v)[i] = Cardinality(L) + Cardinality(U) - 1
  BY DEF AverageRanks
<1>3. i \in U
  <2>1. v[i] \in Int
    BY FiniteIsNumber
  <2>2. QED
    BY <2>1
<1> HIDE DEF L, U
<1>4. Cardinality(L) \in Nat /\ Cardinality(U) \in Nat /\ Cardinality(U) # 0
  BY <1>1, <1>3, FS_CardinalityType, FS_EmptySet
<1>5. QED
  BY <1>2, <1>4

LEMMA SpearmanHolds ==
  ASSUME NEW v \in Numbered, NEW w \in Numbered PROVE SpearmanIsSpearman(v, w)
<1> DEFINE S == Both(v, w)
           n == Cardinality(S)
           pv == Paired(v, w)
           pw == Paired(w, v)
           x == AverageRanks(pv)
           y == AverageRanks(pw)
           o == OrdinalRanks(pv)
           u == OrdinalRanks(pw)
           d == [i \in S |-> o[i] - u[i]]
           ic == Spearman(v, w)
<1>1. /\ pv \in Numbered /\ pw \in Numbered /\ Finite(pv) = S /\ Finite(pw) = S
      /\ \A i \in S : pv[i] = v[i] /\ pw[i] = w[i]
  <2>1. Both(w, v) = S
    BY DEF Both
  <2>2. QED
    BY <2>1, PairedIs
<1>2. IsFiniteSet(S) /\ n \in Nat
  BY <1>1, FiniteIsNumber
<1>3. \A i \in S : x[i] \in Nat /\ y[i] \in Nat
  BY <1>1, AverageType
<1>4. ic = Pearson(x, y, S)
  BY DEF Spearman
<1>5. ic.num * ic.num <= ic.dx * ic.dy
  <2> HIDE DEF ic, x, y, S
  <2>1. QED
    BY <1>2, <1>3, <1>4, PearsonBounded
<1>6. ASSUME \A i, j \in S : i # j => v[i] # v[j] /\ w[i] # w[j]
      PROVE  /\ ic.dx = ic.dy
             /\ ic.num * (n * n * n - n) = ic.dx * (n * n * n - n - 6 * Dot(d, d, S))
  <2>1. \A i \in S : /\ x[i] = 2 * o[i] /\ o[i] \in Nat
                     /\ y[i] = 2 * u[i] /\ u[i] \in Nat
    <3>1. /\ \A i, j \in Finite(pv) : i # j => pv[i] # pv[j]
          /\ \A i, j \in Finite(pw) : i # j => pw[i] # pw[j]
      BY <1>1, <1>6
    <3> HIDE DEF pv, pw, S
    <3>2. \A i \in Finite(pv) : x[i] = 2 * o[i] /\ o[i] \in Nat
      BY <1>1, <3>1, Untied
    <3>3. \A i \in Finite(pw) : y[i] = 2 * u[i] /\ u[i] \in Nat
      BY <1>1, <3>1, Untied
    <3>4. QED
      BY <1>1, <3>2, <3>3
  <2>2. /\ 2 * SumOver(o, S) = n * (n - 1) /\ 6 * Dot(o, o, S) = n * (n - 1) * (2 * n - 1)
        /\ 2 * SumOver(u, S) = n * (n - 1) /\ 6 * Dot(u, u, S) = n * (n - 1) * (2 * n - 1)
    <3>1. AddUp(o, Finite(pv)) /\ AddUp(u, Finite(pw))
      BY <1>1, RanksAddUp
    <3>2. QED
      BY <1>1, <3>1 DEF AddUp
  <2>3. \A i \in S : o[i] \in Nat /\ u[i] \in Nat /\ d[i] = o[i] - u[i]
    BY <2>1
  <2> HIDE DEF S, x, y, o, u, d, ic
  <2>4. /\ Dot(x, y, S) = 4 * Dot(o, u, S) /\ Dot(o, u, S) \in Nat
        /\ Dot(x, x, S) = 4 * Dot(o, o, S) /\ Dot(o, o, S) \in Nat
        /\ Dot(y, y, S) = 4 * Dot(u, u, S) /\ Dot(u, u, S) \in Nat
    <3>1. Dot(x, y, S) = 4 * Dot(o, u, S) /\ Dot(o, u, S) \in Nat
      BY <1>2, <2>1, DotTwice
    <3>2. Dot(x, x, S) = 4 * Dot(o, o, S) /\ Dot(o, o, S) \in Nat
      <4>1. \A i \in S : o[i] \in Nat /\ x[i] = 2 * o[i]
        BY <2>1
      <4>2. QED
        BY <1>2, <4>1, DotTwice
    <3>3. Dot(y, y, S) = 4 * Dot(u, u, S) /\ Dot(u, u, S) \in Nat
      <4>1. \A i \in S : u[i] \in Nat /\ y[i] = 2 * u[i]
        BY <2>1
      <4>2. QED
        BY <1>2, <4>1, DotTwice
    <3>4. QED
      BY <3>1, <3>2, <3>3
  <2>5. /\ SumOver(x, S) = 2 * SumOver(o, S) /\ SumOver(o, S) \in Nat
        /\ SumOver(y, S) = 2 * SumOver(u, S) /\ SumOver(u, S) \in Nat
    <3>1. SumOver(x, S) = 2 * SumOver(o, S) /\ SumOver(o, S) \in Nat
      BY <1>2, <2>1, SumTwice
    <3>2. SumOver(y, S) = 2 * SumOver(u, S) /\ SumOver(u, S) \in Nat
      BY <1>2, <2>1, SumTwice
    <3>3. QED
      BY <3>1, <3>2
  <2>6. /\ Dot(o, o, S) + Dot(u, u, S) = Dot(d, d, S) + 2 * Dot(o, u, S)
        /\ Dot(d, d, S) \in Nat
    BY <1>2, <2>3, DotOfDifferences
  <2> DEFINE p == SumOver(o, S)
             q == Dot(o, o, S)
             c == Dot(o, u, S)
             e == Dot(d, d, S)
  <2>7. SumOver(u, S) = p /\ Dot(u, u, S) = q
    BY <2>2, <2>4, <2>5
  <2>8. /\ p \in Nat /\ q \in Nat /\ c \in Nat /\ e \in Nat
        /\ 2 * p = n * (n - 1) /\ 6 * q = n * (n - 1) * (2 * n - 1) /\ 2 * q = e + 2 * c
    BY <2>2, <2>4, <2>5, <2>6, <2>7
  <2>9. /\ ic.dx = n * (4 * q) - (2 * p) * (2 * p)
        /\ ic.dy = n * (4 * q) - (2 * p) * (2 * p)
        /\ ic.num = n * (4 * c) - (2 * p) * (2 * p)
    BY <1>4, <2>4, <2>5, <2>7 DEF Pearson
  <2> HIDE DEF p, q, c, e, n
  <2>10. (n * (4 * c) - (2 * p) * (2 * p)) * (n * n * n - n)
           = (n * (4 * q) - (2 * p) * (2 * p)) * (n * n * n - n - 6 * e)
    BY <1>2, <2>8, Textbook
  <2>11. ic.num * (n * n * n - n) = ic.dx * (n * n * n - n - 6 * e)
    BY <2>9, <2>10
  <2>12. QED
    BY <2>9, <2>11 DEF e, n
<1> HIDE DEF x, y, o, u, ic
<1>7. QED
  BY <1>5, <1>6 DEF SpearmanIsSpearman, o, u, ic

-----------------------------------------------------------------------------
(***************************************************************************)
(* Whatever the values of a day, however many, ties and holes among them,  *)
(* the ranks are the places of the finite values in their order, scores    *)
(* follow them in the direction of the factor, a tie's average rank is the *)
(* mean of its members', every number of buckets takes every pair once in  *)
(* even shares, and the rank correlation is the textbook's where there are *)
(* no ties and between -1 and 1 where there are (ordinal_ranks,            *)
(* average_ranks, quantile_returns, spearman_rank_ic, pearson).            *)
(***************************************************************************)
THEOREM SectionsOrdered ==
  \A v, w \in Seq(Int \cup {NaN}) :
    /\ RanksAgree(v)
    /\ \A q \in Nat : q > 0 => BucketsAreEven(v, w, q)
    /\ SpearmanIsSpearman(v, w)
<1>1. \A v \in Numbered : RanksAgree(v) /\ \A w \in Numbered : SpearmanIsSpearman(v, w)
  BY RanksHold, SpearmanHolds
<1>2. \A v, w \in Numbered : \A q \in Nat : q > 0 => BucketsAreEven(v, w, q)
  BY BucketsHold
<1>3. QED
  BY <1>1, <1>2 DEF Numbered

(***************************************************************************)
(* The ranks, the buckets and the correlation of a section are right after *)
(* every symbol that joins it, whatever the bound and the values.          *)
(***************************************************************************)
THEOREM SectionsRanked == SectionSpec => []SectionsAddUp
<1> DEFINE SectionInv == section \in Seq(Values \X Values)
<1>1. SectionInit => SectionInv
  BY DEF SectionInit
<1>2. SectionInv /\ [SectionNext]_section => SectionInv'
  <2> SUFFICES ASSUME SectionInv, [SectionNext]_section PROVE section' \in Seq(Values \X Values)
    OBVIOUS
  <2>1. CASE SectionNext
    BY <2>1, AppendProperties DEF SectionNext, AddSymbol
  <2>2. CASE UNCHANGED section
    BY <2>2
  <2>3. QED
    BY <2>1, <2>2
<1>3. SectionInv => SectionsAddUp
  <2> SUFFICES ASSUME SectionInv PROVE SectionsAddUp
    OBVIOUS
  <2>1. /\ Len(section) \in Nat /\ DOMAIN section = 1..Len(section)
        /\ \A i \in 1..Len(section) : section[i] \in Values \X Values
    OBVIOUS
  <2>2. /\ factors \in [1..Len(section) -> Int \cup {NaN}]
        /\ returns \in [1..Len(section) -> Int \cup {NaN}]
    BY <2>1, SectionAssumption DEF factors, returns
  <2> DEFINE Numbers == Int \cup {NaN}
             n == Len(section)
  <2> HIDE DEF Numbers, n
  <2>3. factors \in Seq(Int \cup {NaN}) /\ returns \in Seq(Int \cup {NaN})
    <3>1. n \in Nat /\ factors \in [1..n -> Numbers] /\ returns \in [1..n -> Numbers]
      BY <2>1, <2>2 DEF Numbers, n
    <3>2. factors \in Seq(Numbers) /\ returns \in Seq(Numbers)
      BY <3>1, SeqDef
    <3>3. QED
      BY <3>2 DEF Numbers
  <2>4. /\ RanksAgree(factors) /\ SpearmanIsSpearman(factors, returns)
        /\ \A q \in Nat : q > 0 => BucketsAreEven(factors, returns, q)
    BY <2>3, SectionsOrdered
  <2>5. \A q \in 1..3 : q \in Nat /\ q > 0
    OBVIOUS
  <2>6. QED
    BY <2>4, <2>5 DEF SectionsAddUp
<1>4. QED
  <2> HIDE DEF SectionInv
  <2>1. QED
    BY <1>1, <1>2, <1>3, PTL DEF SectionSpec

=============================================================================
