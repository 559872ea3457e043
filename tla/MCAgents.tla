------------------------------ MODULE MCAgents ------------------------------
(***************************************************************************)
(* Signals on their way to decisions: strategies publish, a client of the  *)
(* signal service listens and queries, and asks the decision agent about   *)
(* the signals it reads (an external program: no code of the repository    *)
(* makes this call).  A request of decide is known by the number of the    *)
(* signal.                                                                 *)
(***************************************************************************)
EXTENDS SignalBus, DecisionAgent

vars == <<busVars, agentVars>>

Init == BusInit /\ AgentInit

SymbolOf(signal) == IF signal % 2 = 1 THEN "a" ELSE "b"

(* The client does not ask for b. *)
WantsOne(c, signal) == SymbolOf(signal) = "a"

(* The client asks because of a signal it has read, about any symbol, with *)
(* positions it knows of.                                                  *)
AskAbout(signal) ==
  /\ signal \in {sent[n] : n \in UNION {Range(sub[c].got) : c \in Clients}}
  /\ \E symbol \in Symbols, positions \in Contexts : Decide(signal, symbol, positions)

Next ==
  \/ BusNext /\ UNCHANGED agentVars
  \/ /\ \/ \E signal \in Requests : AskAbout(signal) \/ CallStep(signal) \/ Abandon(signal)
        \/ Environment
     /\ UNCHANGED busVars

Spec == Init /\ [][Next]_vars /\ BusFairness /\ AgentFairness

-----------------------------------------------------------------------------
SymbolsDef == {"a", "b"}

(* Of six shares the cap on one name lets four through, or the cap on      *)
(* everything two.                                                         *)
ContextsDef == {[a |-> 1, b |-> 0], [a |-> 0, b |-> 6]}

=============================================================================
