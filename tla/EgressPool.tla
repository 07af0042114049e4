----------------------------- MODULE EgressPool -----------------------------
\* The proxy pool file.  A quality check loads it, probes every enabled proxy one
\* after the other and saves the whole pool, one check at a time; pages and
\* outbound callers load it at any moment and choose a proxy; the operator edits
\* it by hand.
EXTENDS Naturals

CONSTANTS
    Checker,            \* requests that run a quality check
    Proxy,
    NoChoice,
    MaxFailCount,       \* policy: failures that take a proxy out of the pool
    MaxChecks           \* bound on the quality checks of a behaviour

ASSUME EgressAssumption == MaxFailCount \in Nat \ {0} /\ MaxChecks \in Nat
ASSUME NoChoiceAssumption == NoChoice \notin Checker \cup Proxy

VARIABLES
    pool,               \* the file: [denies, proxies: Proxy -> [enabled, health]]
    poolLock,           \* _POOL_UPDATE_LOCK: the checker that holds it
    checks,             \* Checker -> [at, copy, todo]
    choice,             \* the proxy chosen by the last step, if it chose one
    checksStarted,
    streak,             \* history: saved failures in a row, by proxy
    overwritten         \* history: proxies whose edit a running check may undo

egressVars == <<pool, poolLock, checks, choice, checksStarted, streak, overwritten>>

NeverProbed == [ok |-> FALSE, listed |-> FALSE, fails |-> 0, cooling |-> FALSE]
NewPool == [denies |-> TRUE, proxies |-> [p \in Proxy |-> [enabled |-> TRUE, health |-> NeverProbed]]]
IdleCheck == [at |-> "idle", copy |-> NewPool, todo |-> {}]

----------------------------------------------------------------------------
\* What a probe finds: an exit in a plain or in a listed country, or no answer.
Found == {"plain", "listed", "dead"}

WithHealth(file, p, health) == [file EXCEPT !.proxies[p].health = health]

\* What a probe makes of a proxy; the policy may refuse where its exit is.
Probed(file, health, found) ==
    LET bad == found = "dead" \/ (file.denies /\ found = "listed")
    IN [ok |-> ~bad, listed |-> found = "listed",
        fails |-> IF bad THEN health.fails + 1 ELSE 0, cooling |-> bad]

\* The policy is applied to a proxy whose probe went well; one that failed is
\* tried again once its cooldown is over, whatever it failed for.
Eligible(file) ==
    {p \in Proxy :
        LET health == file.proxies[p].health
        IN /\ file.proxies[p].enabled
           /\ ~health.cooling
           /\ health.fails < MaxFailCount
           /\ ~(health.ok /\ file.denies /\ health.listed)}

\* select: the first of the eligible ones, in an order of priority, country,
\* quality, latency and risk that the model leaves open.
Chosen(file) == IF Eligible(file) = {} THEN {NoChoice} ELSE Eligible(file)

----------------------------------------------------------------------------
LoadPoolMutant(c) ==
    /\ checks[c].at = "idle" /\ checksStarted < MaxChecks
    /\ checksStarted' = checksStarted + 1
    /\ checks' = [checks EXCEPT ![c] = [at |-> "probing", copy |-> pool,
                                        todo |-> {p \in Proxy : pool.proxies[p].enabled}]]
    /\ choice' = NoChoice
    /\ UNCHANGED <<pool, poolLock, streak, overwritten>>

LoadPool(c) ==
    /\ checks[c].at = "idle" /\ checksStarted < MaxChecks
    /\ poolLock = NoChoice
    /\ poolLock' = c
    /\ checksStarted' = checksStarted + 1
    /\ checks' = [checks EXCEPT ![c] = [at |-> "probing", copy |-> pool,
                                        todo |-> {p \in Proxy : pool.proxies[p].enabled}]]
    /\ choice' = NoChoice
    /\ UNCHANGED <<pool, streak, overwritten>>

ProbeOne(c, p, found) ==
    /\ p \in checks[c].todo
    /\ LET file == checks[c].copy
           health == Probed(file, file.proxies[p].health, found)
       IN checks' = [checks EXCEPT ![c] = [at |-> "probing", copy |-> WithHealth(file, p, health),
                                           todo |-> checks[c].todo \ {p}]]
    /\ choice' = NoChoice
    /\ UNCHANGED <<pool, poolLock, checksStarted, streak, overwritten>>

\* The whole pool replaces the file; the file is loaded again and a proxy chosen.
SavePool(c) ==
    /\ checks[c].at = "probing" /\ checks[c].todo = {}
    /\ pool' = checks[c].copy
    /\ streak' = [p \in Proxy |->
                    IF ~pool'.proxies[p].enabled THEN streak[p]
                    ELSE IF pool'.proxies[p].health.ok THEN 0 ELSE streak[p] + 1]
    /\ choice' \in Chosen(pool')
    /\ checks' = [checks EXCEPT ![c] = IdleCheck]
    /\ poolLock' = NoChoice
    /\ UNCHANGED <<checksStarted, overwritten>>

\* The file could not be written or the request is gone: nothing is published.
AbandonCheck(c) ==
    /\ checks[c].at = "probing"
    /\ checks' = [checks EXCEPT ![c] = IdleCheck]
    /\ poolLock' = NoChoice
    /\ choice' = NoChoice
    /\ UNCHANGED <<pool, checksStarted, streak, overwritten>>

\* resolve_proxy_url and the egress page load the file without the lock.
SelectProxy ==
    /\ choice' \in Chosen(pool)
    /\ UNCHANGED <<pool, poolLock, checks, checksStarted, streak, overwritten>>

----------------------------------------------------------------------------
\* The operator turns a proxy on or off in the file, drops what is known of it, or
\* changes the policy.
EditPool(p) ==
    /\ \/ /\ pool' = [pool EXCEPT !.proxies[p].enabled = ~@]
          /\ UNCHANGED <<streak, overwritten>>
       \/ /\ pool' = [pool EXCEPT !.denies = ~@]
          /\ UNCHANGED <<streak, overwritten>>
       \/ /\ pool' = WithHealth(pool, p, NeverProbed)
          /\ streak' = [streak EXCEPT ![p] = 0]
          /\ overwritten' = IF poolLock = NoChoice THEN overwritten \ {p}
                            ELSE overwritten \cup {p}
    /\ choice' = NoChoice
    /\ UNCHANGED <<poolLock, checks, checksStarted>>

\* Time passes: the cooldown of the last saved probe ends, here and in a copy
\* that has not probed the proxy itself.
CooldownEnds(p) ==
    LET Ended(file) == WithHealth(file, p, [file.proxies[p].health EXCEPT !.cooling = FALSE])
    IN /\ pool.proxies[p].health.cooling
       /\ pool' = Ended(pool)
       /\ checks' = [c \in Checker |->
              IF p \in checks[c].todo \/ ~checks[c].copy.proxies[p].enabled
              THEN [at |-> checks[c].at, copy |-> Ended(checks[c].copy), todo |-> checks[c].todo]
              ELSE checks[c]]
       /\ choice' = NoChoice
       /\ UNCHANGED <<poolLock, checksStarted, streak, overwritten>>

EgressInit ==
    /\ pool = NewPool /\ poolLock = NoChoice
    /\ checks = [c \in Checker |-> IdleCheck]
    /\ choice = NoChoice /\ checksStarted = 0
    /\ streak = [p \in Proxy |-> 0] /\ overwritten = {}

EgressNext ==
    \/ \E c \in Checker :
         \/ LoadPool(c)
         \/ \E p \in Proxy, found \in Found : ProbeOne(c, p, found)
         \/ SavePool(c)
         \/ AbandonCheck(c)
    \/ SelectProxy
    \/ \E p \in Proxy : EditPool(p) \/ CooldownEnds(p)

EgressSpec == EgressInit /\ [][EgressNext]_egressVars

----------------------------------------------------------------------------
\* Type invariant; a proxy the file calls good has no failures and does not rest.
EgressTypeOK ==
    /\ poolLock \in Checker \cup {NoChoice}
    /\ choice \in Proxy \cup {NoChoice}
    /\ \A p \in Proxy :
         LET health == pool.proxies[p].health
         IN /\ pool.proxies[p].enabled \in BOOLEAN
            /\ health.fails \in 0..MaxChecks
            /\ health.ok => health.fails = 0 /\ ~health.cooling

\* No result is lost: the failures the file counts for a proxy are exactly the
\* failed probes saved in a row, however checks overlap (the update lock, and one
\* replacement of the file per check).  An edit made during a check is excepted:
\* the check puts back what it had loaded.
FailuresCounted ==
    \A p \in Proxy \ overwritten : pool.proxies[p].health.fails = streak[p]

=============================================================================
