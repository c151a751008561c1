-------------------------------- MODULE Quotas --------------------------------
(***************************************************************************)
(* API quotas (QuotaService of the admin service): the limits of one owner *)
(* per day and per month, the counts against them, and their reset, which  *)
(* the first check after the end of a period performs.                     *)
(*                                                                         *)
(* Rows of two owners never meet (a reset covers every row that is due,    *)
(* each by its own date), so one row stands for all.  Nothing in the       *)
(* repository calls checkQuota and incrementUsage yet; a request here uses *)
(* them the way they fit together: check, and if allowed, count.  The      *)
(* names are unlike those of Admin, so that AdminProofs can use both.      *)
(***************************************************************************)
EXTENDS Naturals, FiniteSets

CONSTANTS
  Checks,        \* slots for concurrent requests of the owner
  Limits,        \* limits an administrator may set
  Default,       \* the limit if none is given (10000 and 300000 in the code)
  DaysPerMonth,
  MaxDay,        \* bound on the clock
  MaxUses        \* bound on the uses counted in a row

ASSUME QuotasAssumption ==
  /\ IsFiniteSet(Checks) /\ Checks # {}
  /\ Limits \subseteq Nat /\ Default \in Nat
  /\ DaysPerMonth \in Nat \ {0} /\ MaxDay \in Nat /\ MaxUses \in Nat

VARIABLES
  today,
  quota,    \* the row of `api_quotas`, or NoQuota
  checks,   \* what the requests in progress do next
  uses,     \* history: the uses counted in the period that runs
  fresh,    \* history: those of requests whose check began in that period
  lax       \* history: the limits of this row were lowered or not enforced

quotaVars == <<today, quota, checks, uses, fresh, lax>>

Window == {"daily", "monthly"}

\* The day the period of d ends (reset_daily_at, reset_monthly_at).
NextReset(w, d) ==
  IF w = "daily" THEN d + 1 ELSE (d \div DaysPerMonth + 1) * DaysPerMonth

Quota == [limit : [Window -> Limits \cup {Default}], count : [Window -> 0..MaxUses],
          reset : [Window -> 1..(MaxDay + DaysPerMonth)], is_active : BOOLEAN]
NoQuota == [is_active |-> FALSE]
Exists == quota # NoQuota

Due(w, d) == quota.reset[w] <= d

\* at: what the request does next; now: the day its check began (0 where it met no
\* limit).
Check == [at : {"idle", "daily", "readDaily", "monthly", "readMonthly", "use"},
            now : 0..MaxDay]
NoCheck == [at |-> "idle", now |-> 0]

Zero == [w \in Window |-> 0]

QuotaInit ==
  /\ today = 0
  /\ quota = NoQuota
  /\ checks = [h \in Checks |-> NoCheck]
  /\ uses = Zero /\ fresh = Zero /\ lax = FALSE

Goto(h, at, now) == checks' = [checks EXCEPT ![h] = [at |-> at, now |-> now]]

Using == {h \in Checks : checks[h].at = "use"}

-----------------------------------------------------------------------------
(* What administrators do.                                                  *)

\* `limit || default`: a limit of 0 becomes the default too.
Given(limit) == [w \in Window |-> IF limit[w] = 0 THEN Default ELSE limit[w]]

CreateQuota(limit, active) ==
  /\ ~Exists
  /\ quota' = [limit |-> Given(limit), count |-> Zero,
               reset |-> [w \in Window |-> NextReset(w, today)], is_active |-> active]
  /\ uses' = Zero /\ fresh' = Zero
  /\ lax' = (~active \/ Using # {})
  /\ UNCHANGED <<today, checks>>

UpdateQuota(limit, active) ==
  /\ Exists
  /\ quota' = [quota EXCEPT !.limit = limit, !.is_active = active]
  /\ lax' = (lax \/ ~active \/ \E w \in Window : limit[w] < quota.limit[w])
  /\ UNCHANGED <<today, checks, uses, fresh>>

DeleteQuota ==
  /\ Exists
  /\ quota' = NoQuota
  /\ uses' = Zero /\ fresh' = Zero /\ lax' = FALSE
  /\ UNCHANGED <<today, checks>>

-----------------------------------------------------------------------------
(* checkQuota, then incrementUsage.                                         *)

\* Mutant: the last one is let through twice.
RemainsOrEven(w) == quota.limit[w] >= quota.count[w]

Remains(w) == quota.limit[w] > quota.count[w]

Allowed == \A w \in Window : Remains(w)

Decide(h) == IF Allowed THEN Goto(h, "use", checks[h].now) ELSE Goto(h, "idle", 0)

CheckQuota(h) ==
  /\ checks[h] = NoCheck
  /\ IF ~Exists \/ ~quota.is_active THEN Goto(h, "use", 0)
     ELSE IF Due("daily", today) THEN Goto(h, "daily", today)
     ELSE IF Due("monthly", today) THEN Goto(h, "monthly", today)
     ELSE Decide(h)
  /\ UNCHANGED <<today, quota, uses, fresh, lax>>

\* Mutant: the UPDATE of resetDailyCounts and resetMonthlyCounts without WHERE.
ResetAnyway(h, w) ==
  /\ checks[h].at = w
  /\ quota' = IF ~Exists THEN quota
              ELSE [quota EXCEPT !.count[w] = 0, !.reset[w] = NextReset(w, today)]
  /\ Goto(h, IF w = "daily" THEN "readDaily" ELSE "readMonthly", checks[h].now)
  /\ UNCHANGED <<today, uses, fresh, lax>>

ResetCounts(h, w) ==
  LET due == Exists /\ Due(w, today) IN
  /\ checks[h].at = w
  /\ quota' = IF due THEN [quota EXCEPT !.count[w] = 0, !.reset[w] = NextReset(w, today)]
              ELSE quota
  /\ Goto(h, IF w = "daily" THEN "readDaily" ELSE "readMonthly", checks[h].now)
  /\ UNCHANGED <<today, uses, fresh, lax>>

\* The row is read again; whether it is active is not looked at any more.
Reread(h) ==
  LET r == checks[h] IN
  /\ r.at \in {"readDaily", "readMonthly"}
  /\ IF ~Exists THEN Goto(h, "use", 0)
     ELSE IF r.at = "readDaily" /\ Due("monthly", r.now) THEN Goto(h, "monthly", r.now)
     ELSE Decide(h)
  /\ UNCHANGED <<today, quota, uses, fresh, lax>>

\* Days of one period of a window.
SamePeriod(w, d, e) == NextReset(w, d) = NextReset(w, e)

IncrementUsage(h) ==
  /\ checks[h].at = "use"
  /\ \/ /\ Exists
        /\ \A w \in Window : quota.count[w] < MaxUses /\ uses[w] < MaxUses
        /\ quota' = [quota EXCEPT !.count = [w \in Window |-> @[w] + 1]]
        /\ uses' = [w \in Window |-> uses[w] + 1]
        /\ fresh' = [w \in Window |->
                       IF SamePeriod(w, checks[h].now, today) THEN fresh[w] + 1 ELSE fresh[w]]
     \/ ~Exists /\ UNCHANGED <<quota, uses, fresh>>
  /\ Goto(h, "idle", 0)
  /\ UNCHANGED <<today, lax>>

\* A day ends, and with some days a month.
Tick ==
  LET Kept(f) == [w \in Window |-> IF SamePeriod(w, today, today + 1) THEN f[w] ELSE 0] IN
  /\ today < MaxDay /\ today' = today + 1
  /\ uses' = Kept(uses) /\ fresh' = Kept(fresh)
  /\ UNCHANGED <<quota, checks, lax>>

\* A query fails, or the request goes no further.
DropCheck(h) ==
  /\ checks[h] # NoCheck
  /\ Goto(h, "idle", 0)
  /\ UNCHANGED <<today, quota, uses, fresh, lax>>

Administrate ==
  \/ \E limit \in [Window -> Limits \cup {Default}], active \in BOOLEAN :
       CreateQuota(limit, active) \/ UpdateQuota(limit, active)
  \/ DeleteQuota

QuotaNext ==
  \/ \E h \in Checks :
       \/ CheckQuota(h) \/ Reread(h) \/ IncrementUsage(h) \/ DropCheck(h)
       \/ \E w \in Window : ResetCounts(h, w)
  \/ Administrate
  \/ Tick

QuotaSpec == QuotaInit /\ [][QuotaNext]_quotaVars

-----------------------------------------------------------------------------
(* Properties                                                              *)

\* Every variable has its type.
QuotaTypeOK ==
  /\ today \in 0..MaxDay
  /\ quota \in Quota \cup {NoQuota}
  /\ checks \in [Checks -> Check]
  /\ uses \in [Window -> 0..MaxUses] /\ fresh \in [Window -> 0..MaxUses]
  /\ lax \in BOOLEAN

\* Checks and counts are separate statements, so a limit may be passed, but by no
\* more than the requests that were let through together besides the last one,
\* even across resets, while the limits are enforced and not lowered.
OverrunIsBounded ==
  Exists /\ ~lax =>
    \A w \in Window : quota.count[w] + Cardinality(Using)
                        <= quota.limit[w] + Cardinality(Checks) - 1

\* However many checks find the period over at once, none of their resets drops a
\* use of a request that checked in the period that runs, and once one of them has
\* run nothing of an earlier period is left in the count.  (A use of a request let
\* through before midnight, or while no limit was enforced, is dropped when the
\* first reset follows it.)
CountsAreOfThePeriod ==
  QuotaTypeOK /\
    (Exists => \A w \in Window :
       /\ fresh[w] <= quota.count[w]
       /\ Due(w, today) \/ quota.count[w] <= uses[w])

\* Strengthening of CountsAreOfThePeriod: where a reset is due no such use has been
\* counted, for a request past the resets of its check knows that none was due.
Cleared(h, w) ==
  \/ checks[h].at \in {"idle", "daily"}
  \/ w = "monthly" /\ checks[h].at \in {"readDaily", "monthly"}
  \/ quota.reset[w] > checks[h].now

ResetsAreDone ==
  /\ \A h \in Checks : checks[h].now <= today
  /\ Exists => \A w \in Window :
       /\ \E d \in 0..today : quota.reset[w] = NextReset(w, d)
       /\ Due(w, today) => fresh[w] = 0
       /\ \A h \in Checks : Cleared(h, w)
==============================================================================
