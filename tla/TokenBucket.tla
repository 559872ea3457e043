---------------------------- MODULE TokenBucket ----------------------------
(***************************************************************************)
(* rate_limit.rs: the token bucket that tasks share to call the sidecar.   *)
(* It is refilled lazily, by whoever locks it next, from the time since    *)
(* the last refill.  Tokens are counted in units, Scale to a token, and    *)
(* time in ticks, Rate units each; times are kept relative (the time since *)
(* last_refill, not last_refill itself), so that the clock need not be     *)
(* bounded.  A window of observation may open at any time.                 *)
(***************************************************************************)
EXTENDS Integers

CONSTANTS
  Tasks,
  Scale,       \* units of a token
  Rate,        \* refill_per_sec: units gained in a tick
  Burst,       \* burst.max(1)
  MaxIdle,     \* ticks after which an untouched bucket is full in any case
  MaxWindow    \* bound: ticks of a window of observation

Capacity == Burst * Scale

ASSUME BucketAssumption ==
  /\ Scale \in Nat \ {0} /\ Rate \in Nat \ {0} /\ Burst \in Nat \ {0}
  /\ MaxIdle \in Nat /\ MaxWindow \in Nat
  /\ Capacity <= Rate * MaxIdle

VARIABLES
  tokens,      \* the field: units at the last refill
  idle,        \* ticks since last_refill
  asleep,      \* ticks a task in acquire has yet to sleep
  granted,     \* calls admitted in the window
  elapsed      \* ticks since the window opened

bucket == <<tokens, idle>>
window == <<granted, elapsed>>
vars   == <<bucket, asleep, window>>

Lesser(a, b) == IF a <= b THEN a ELSE b

TypeOK ==
  /\ tokens \in 0..Capacity
  /\ idle \in 0..MaxIdle
  /\ asleep \in [Tasks -> Nat]
  /\ granted \in Nat
  /\ elapsed \in 0..MaxWindow

Init ==
  /\ tokens = Capacity /\ idle = 0
  /\ asleep = [t \in Tasks |-> 0]
  /\ granted = 0 /\ elapsed = 0

(* Mutant of Level: the capacity does not limit what an idle bucket gains. *)
LevelUncapped == tokens + Rate * idle

(* refill: what the bucket holds once it is brought up to date. *)
Level == Lesser(tokens + Rate * idle, Capacity)

(* wait_duration of a bucket that is short of a token, in whole ticks. *)
WaitFor(level) == (Scale - level + Rate - 1) \div Rate

(* One turn of the loop in acquire, with the bucket locked. *)
Acquire(t) ==
  /\ asleep[t] = 0
  /\ IF Level >= Scale
       THEN /\ tokens' = Level - Scale
            /\ granted' = granted + 1
            /\ UNCHANGED asleep
       ELSE /\ tokens' = Level
            /\ asleep' = [asleep EXCEPT ![t] = WaitFor(Level)]
            /\ UNCHANGED granted
  /\ idle' = 0
  /\ UNCHANGED elapsed

(* Time passes for everybody. *)
Tick ==
  /\ elapsed < MaxWindow
  /\ elapsed' = elapsed + 1
  /\ idle' = Lesser(idle + 1, MaxIdle)
  /\ asleep' = [t \in Tasks |-> IF asleep[t] = 0 THEN 0 ELSE asleep[t] - 1]
  /\ UNCHANGED <<tokens, granted>>

(* Somebody starts to count. *)
OpenWindow ==
  /\ granted' = 0 /\ elapsed' = 0
  /\ UNCHANGED <<bucket, asleep>>

Next == (\E t \in Tasks : Acquire(t)) \/ Tick \/ OpenWindow

Spec == Init /\ [][Next]_vars

-----------------------------------------------------------------------------
(***************************************************************************)
(* In no window of time, wherever it starts, are more calls admitted than  *)
(* a full bucket and the rate allow, however many tasks refill the bucket  *)
(* between them (AsyncRateLimiter::acquire, TokenBucket::refill).          *)
(***************************************************************************)
WindowBound == granted * Scale <= Capacity + Rate * elapsed

(* The inductive invariant of TokenBucket_proofs. *)
IInv ==
  /\ TypeOK
  /\ granted * Scale + Level <= Capacity + Rate * elapsed

(***************************************************************************)
(* To its callers the lazily refilled bucket is a pool of permits: the     *)
(* whole tokens it would hold if it were brought up to date.               *)
(***************************************************************************)
Pool == INSTANCE PermitPool WITH permits <- Level \div Scale

ImplementsPool == Pool!Spec

=============================================================================
