--------------------------- MODULE BacktestService ---------------------------
(***************************************************************************)
(* A backtest as a client of the gRPC service sees it (grpc.rs of          *)
(* tg-backtest): submit puts a job into a table and spawns a task, which   *)
(* runs BacktestRunner, computes the metrics of the result (perf.rs) and   *)
(* updates the job; clients poll status and result.  Jobs have ids of      *)
(* their own (JOB_COUNTER), so one is modelled.  The service is written    *)
(* for any BacktestJobExecutor; here it is BacktestRunner::run.            *)
(***************************************************************************)
EXTENDS Backtest, Performance

VARIABLES
  job,        \* the entry of the jobs table; a status of "none" is no entry
  report      \* the metrics execute_run returns

service == <<job, report>>

(* Money is in parts so small that every share of a fee is whole. *)
ASSUME SharesAssumption == \A n \in 1..MaxLots : Denom % n = 0

NoReport == [trades |-> <<>>, open |-> <<>>, drawdown |-> <<0, 1>>, return |-> <<0, 1>>,
             wins |-> <<0, 1>>, factor |-> <<0, 1>>, fees |-> 0]

JobOf(status, error, metrics) == [status |-> status, error |-> error, metrics |-> metrics]

(* ledger.fills in the order they were applied, which is that of their ids *)
Tape ==
  LET byId   == Placing(UpTo({f.id : f \in fills}))
      Of(id) == CHOOSE f \in fills : f.id = id
  IN  [i \in DOMAIN byId |->
         LET f == Of(byId[i])
         IN  [symbol |-> f.symbol, side |-> f.side, price |-> f.price, lots |-> f.lots,
              ts |-> f.ts, fees |-> FeesOf(f)]]

(* equity_curve: a map that iterates by date *)
Curve == LET dates == Placing(UpTo(DOMAIN equity))
         IN  [i \in DOMAIN dates |-> equity[dates[i]]]

(* compute_metrics of the closed trades *)
Metrics ==
  LET closed == Closed(Tape)
  IN  [trades |-> closed.trades, open |-> closed.lots,
       drawdown |-> MaxDrawdown(Curve), return |-> TotalReturn(Curve),
       wins |-> WinRate(closed.trades), factor |-> ProfitFactor(closed.trades),
       fees |-> SumOf([i \in DOMAIN Tape |-> Tape[i].fees])]

-----------------------------------------------------------------------------
ServiceInit ==
  /\ Init
  /\ job = JobOf("none", FALSE, NoReport)
  /\ report = NoReport

(* submit_backtest, of a valid request *)
SubmitBacktest ==
  /\ job.status = "none"
  /\ job' = JobOf("pending", FALSE, NoReport)
  /\ UNCHANGED <<vars, report>>

(* The spawned task starts, and BacktestRunner::run with it. *)
StartJob ==
  /\ job.status = "pending"
  /\ job' = JobOf("running", FALSE, NoReport)
  /\ UNCHANGED <<vars, report>>

(* A step of the runner before execute_run has its result. *)
RunnerStep ==
  /\ job.status = "running"
  /\ \/ SaveRunning
     \/ \E bars \in SUBSET Slots : LoadBars(bars)
     \/ LoadFails
     \/ EngineTask
  /\ UNCHANGED service

(* Engine::run returns, and the metrics are computed. *)
Compute ==
  /\ job.status = "running"
  /\ EngineReturns
  /\ report' = Metrics
  /\ UNCHANGED job

(* save_status at the end of run, and update_job of what run returns: an    *)
(* error of its own, or that of execute_run.                                *)
FinishJob ==
  /\ job.status = "running" /\ stage \in {"done", "failed"}
  /\ SaveResult
  /\ job' = IF row' = "done" THEN JobOf("done", FALSE, report) ELSE JobOf("failed", TRUE, NoReport)
  /\ UNCHANGED report

(* The first save_status failed: run has not done anything. *)
FailJob ==
  /\ job.status = "running" /\ stage = "end" /\ row = "none"
  /\ job' = JobOf("failed", TRUE, NoReport)
  /\ UNCHANGED <<vars, report>>

ServiceNext ==
  \/ SubmitBacktest
  \/ StartJob
  \/ RunnerStep
  \/ Compute
  \/ FinishJob
  \/ FailJob

ServiceSpec == ServiceInit /\ [][ServiceNext]_<<vars, service>>

-----------------------------------------------------------------------------
TotalPnl(trades) == SumOf([i \in DOMAIN trades |-> trades[i].pnl])

OpenCost(lots) == SumOf([i \in DOMAIN lots |-> lots[i].cost])

(***************************************************************************)
(* The report a client gets is about the run that is on record, and it     *)
(* explains the money: what the account has is what it began with, and     *)
(* the profit of the closed trades, without what the open lots cost, and   *)
(* the open lots are the positions (get_backtest_result, execute_run:      *)
(* closed_trades_from_fills keeps a book apart from the ledger's).         *)
(***************************************************************************)
ReportExplainsCash ==
  job.status = "done" =>
    LET m == job.metrics
    IN  /\ row = "done" /\ ~job.error
        /\ Denom * cash = Denom * InitialCash + TotalPnl(m.trades) - OpenCost(m.open)
        /\ \A s \in Symbols :
             SumOf([i \in DOMAIN m.open |-> IF m.open[i].symbol = s THEN m.open[i].lots ELSE 0])
               = total[s]

LotsBefore(side, f) ==
  SumOver([g \in fills |-> g.lots],
          {g \in FillsOn(side) : g.symbol = f.symbol /\ g.id < f.id})

(***************************************************************************)
(* What Backtest_proofs shows of the fills as a list: an id is given once, *)
(* and no sale takes more than the fills before it have left of a symbol,  *)
(* which closed_trades_from_fills counts on and does not check.            *)
(***************************************************************************)
TapeInv ==
  /\ \A f, g \in fills : f.id = g.id => f = g
  /\ \A f \in FillsOn("Sell") : LotsBefore("Sell", f) + f.lots <= LotsBefore("Buy", f)

(* ... and of the job: the metrics are those of the fills when the run ends. *)
JobInv ==
  /\ row = "done" => stage = "end"
  /\ stage = "done" => report = Metrics
  /\ job.status = "done" => row = "done" /\ ~job.error /\ job.metrics = Metrics

=============================================================================
