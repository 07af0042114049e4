---------------------------- MODULE ServicesProofs ----------------------------
(***************************************************************************)
(* Theorems on the provider services: the search catalogue, the proxy pool *)
(* and the outbound client.                                                *)
(*                                                                         *)
(* What the search catalogue offers is current, for any number of health   *)
(* checks and session imports at once and any bound on the row's version.  *)
(* Two facts carry it: a check that holds the row's version has seen every *)
(* change of the operator (PlansAreFenced), and an import that nothing     *)
(* overlapped is the only one under way (AloneIsAlone).                    *)
(*                                                                         *)
(* The failures the pool file counts for a proxy are the failed probes     *)
(* saved in a row, for any number of checks and proxies.  One check runs   *)
(* at a time (OneCheck), so the copy it probes is one probe ahead of the   *)
(* file, at most (CopyCounts).                                             *)
(*                                                                         *)
(* A request of the outbound client holds the permits of the place it has  *)
(* reached, and what it has sent went to the address that was approved;    *)
(* for any number of requests and permits.                                 *)
(*                                                                         *)
(* At the end the services of MCServices stand side by side: each keeps    *)
(* the shape of its rows and its promise, whichever of them is live.       *)
(***************************************************************************)
EXTENDS MCServices, DatabaseProofs, FiniteSetTheorems

Row == [enabled : BOOLEAN, configured : BOOLEAN, profile : Profile, status : RuntimeStatus,
        session : {"not_required", "available", "missing"}, version : Nat]

RowTypes ==
    /\ prow \in Row /\ prow.version \in 1..MaxVersion
    /\ needsCookie \in BOOLEAN /\ changes \in Nat /\ changes <= prow.version
    /\ DOMAIN probes = Prober /\ DOMAIN imports = Importer
    /\ \A i \in Importer : "status" \in DOMAIN imports[i] => imports[i].status \in RuntimeStatus

\* A running check holds a version of the row's past; if it is the present one,
\* the operator has changed nothing since.
PlansAreFenced ==
    \A p \in Prober : probes[p] # NoPlan =>
        /\ probes[p].version \in Nat /\ probes[p].version <= prow.version
        /\ probes[p].version = prow.version => probes[p].began = changes

\* "ready" comes from a check since the operator's last change, or is stale.
ReadyIsProved == prow.status = "ready" => provedAt = changes \/ staleStatus

DisabledIsTold == prow.status = "disabled" \/ prow.enabled \/ staleStatus

\* An import that nothing overlapped is the only one, and has saved its cookie.
AloneIsAlone ==
    lastSession = "alone" =>
        \A i \in Importer : imports[i] # NoImport =>
            /\ \A j \in Importer : j # i => imports[j] = NoImport
            /\ imports[i].kind = "save" => storedCookie

\* What a settled session operation left is still there.
SessionIsKept ==
    needsCookie =>
        /\ lastSession \in {"delete", "try"} => prow.session # "available"
        /\ lastSession = "save" => storedCookie /\ prow.session = "available"

RuntimeInv ==
    /\ RowTypes /\ PlansAreFenced /\ ReadyIsProved /\ DisabledIsTold
    /\ AloneIsAlone /\ SessionIsKept

----------------------------------------------------------------------------
\* What Mutate does to the row, field by field.
LEMMA Mutated ==
    ASSUME prow \in Row, NEW version, NEW values, Mutate(version, values)
    PROVE  /\ prow.version = version /\ version < MaxVersion /\ ~staleStatus'
           /\ prow' = [enabled |-> IF "enabled" \in DOMAIN values THEN values["enabled"] ELSE prow.enabled,
                       configured |-> IF "configured" \in DOMAIN values
                                      THEN values["configured"] ELSE prow.configured,
                       profile |-> IF "profile" \in DOMAIN values THEN values["profile"] ELSE prow.profile,
                       status |-> IF "status" \in DOMAIN values THEN values["status"] ELSE prow.status,
                       session |-> IF "session" \in DOMAIN values THEN values["session"] ELSE prow.session,
                       version |-> version + 1]
  <1>1. DOMAIN prow = {"enabled", "configured", "profile", "status", "session", "version"}
    BY DEF Row
  <1>2. QED
    BY <1>1 DEF Mutate, Fenced, Row

LEMMA OperatorKeeps ==
    ASSUME RuntimeInv, OperatorStep, prow' \in Row, prow'.version = prow.version + 1,
           prow.version < MaxVersion, prow'.status = Off(prow'.enabled),
           prow'.session = prow.session, ~staleStatus'
    PROVE  RuntimeInv'
  <1>1. RowTypes'
    BY ProviderRuntimeAssumption DEF RuntimeInv, RowTypes, OperatorStep, Row
  <1>2. PlansAreFenced'
    BY DEF RuntimeInv, RowTypes, PlansAreFenced, OperatorStep, Row
  <1>3. ReadyIsProved' /\ DisabledIsTold'
    BY DEF ReadyIsProved, DisabledIsTold, Off
  <1>4. AloneIsAlone' /\ SessionIsKept'
    BY DEF RuntimeInv, AloneIsAlone, SessionIsKept, OperatorStep
  <1>5. QED
    BY <1>1, <1>2, <1>3, <1>4 DEF RuntimeInv

LEMMA OperatorSteps ==
    ASSUME RuntimeInv, NEW version, NEW profile \in Profile, NEW enabled \in BOOLEAN,
           SaveConfiguration(version, profile) \/ SetEnabled(version, enabled) \/ ClearError(version)
    PROVE  RuntimeInv'
  <1>1. prow \in Row
    BY DEF RuntimeInv, RowTypes
  <1>2. /\ OperatorStep /\ prow.version = version /\ version < MaxVersion /\ ~staleStatus'
        /\ prow'.version = version + 1 /\ prow'.session = prow.session
        /\ prow'.status = Off(prow'.enabled)
        /\ prow'.enabled \in BOOLEAN /\ prow'.configured \in BOOLEAN /\ prow'.profile \in Profile
        /\ prow' = [enabled |-> prow'.enabled, configured |-> prow'.configured,
                    profile |-> prow'.profile, status |-> prow'.status,
                    session |-> prow'.session, version |-> prow'.version]
    <2>1. CASE SaveConfiguration(version, profile)
      <3> DEFINE values == [profile |-> profile, configured |-> TRUE, status |-> Off(prow.enabled)]
      <3>1. /\ DOMAIN values = {"profile", "configured", "status"}
            /\ values["profile"] = profile /\ values["configured"] = TRUE
            /\ values["status"] = Off(prow.enabled)
        OBVIOUS
      <3>2. Mutate(version, values) /\ OperatorStep
        BY <2>1 DEF SaveConfiguration
      <3> HIDE DEF values
      <3>3. /\ prow.version = version /\ version < MaxVersion /\ ~staleStatus'
            /\ prow' = [enabled |-> prow.enabled, configured |-> TRUE, profile |-> profile,
                        status |-> Off(prow.enabled), session |-> prow.session, version |-> version + 1]
        BY <1>1, <3>1, <3>2, Mutated
      <3>4. QED
        BY <1>1, <3>2, <3>3 DEF Row
    <2>2. CASE SetEnabled(version, enabled)
      <3> DEFINE values == [enabled |-> enabled, status |-> Off(enabled)]
      <3>1. /\ DOMAIN values = {"enabled", "status"}
            /\ values["enabled"] = enabled /\ values["status"] = Off(enabled)
        OBVIOUS
      <3>2. Mutate(version, values) /\ OperatorStep
        BY <2>2 DEF SetEnabled
      <3> HIDE DEF values
      <3>3. QED
        BY <1>1, <3>1, <3>2, Mutated DEF Row
    <2>3. CASE ClearError(version)
      <3> DEFINE values == [status |-> Off(prow.enabled)]
      <3>1. DOMAIN values = {"status"} /\ values["status"] = Off(prow.enabled)
        OBVIOUS
      <3>2. Mutate(version, values) /\ OperatorStep
        BY <2>3 DEF ClearError
      <3> HIDE DEF values
      <3>3. QED
        BY <1>1, <3>1, <3>2, Mutated DEF Row
    <2>4. QED
      BY <2>1, <2>2, <2>3
  <1>3. prow' \in Row
    BY <1>1, <1>2 DEF Row, Off, RuntimeStatus
  <1>4. QED
    BY <1>2, <1>3, OperatorKeeps

----------------------------------------------------------------------------
\* A check's result, begun since the operator's last change, keeps the row's facts.
LEMMA CompleteKeeps ==
    ASSUME RuntimeInv, NEW version, NEW success \in BOOLEAN, Complete(version, success, changes),
           UNCHANGED <<needsCookie, storedCookie, imports, changes, lastSession>>,
           DOMAIN probes' = Prober
    PROVE  /\ RowTypes' /\ prow'.version = prow.version + 1
           /\ ReadyIsProved' /\ DisabledIsTold' /\ AloneIsAlone' /\ SessionIsKept'
  <1>1. prow \in Row
    BY DEF RuntimeInv, RowTypes
  <1> DEFINE status == CheckedStatus(success)
  <1>2. /\ status \in RuntimeStatus
        /\ EffectiveSession \in {"not_required", "available", "missing"}
        /\ status = "disabled" \/ prow.enabled
    BY <1>1 DEF CheckedStatus, Blocker, EffectiveSession, LocalSession, RuntimeStatus, Row
  <1>3. /\ prow.version < MaxVersion /\ ~staleStatus'
        /\ provedAt' = IF status = "ready" THEN changes ELSE provedAt
        /\ prow' = [enabled |-> prow.enabled, configured |-> prow.configured,
                    profile |-> prow.profile, status |-> status,
                    session |-> EffectiveSession, version |-> prow.version + 1]
    <2> DEFINE values == [status |-> status, session |-> EffectiveSession]
    <2>1. /\ DOMAIN values = {"status", "session"}
          /\ values["status"] = status /\ values["session"] = EffectiveSession
      OBVIOUS
    <2>2. /\ Mutate(version, values)
          /\ provedAt' = IF status = "ready" THEN changes ELSE provedAt
      BY DEF Complete
    <2> HIDE DEF values, status
    <2>3. /\ prow.version = version /\ version < MaxVersion /\ ~staleStatus'
          /\ prow' = [enabled |-> prow.enabled, configured |-> prow.configured,
                      profile |-> prow.profile, status |-> status,
                      session |-> EffectiveSession, version |-> version + 1]
      BY <1>1, <2>1, <2>2, Mutated
    <2>4. QED
      BY <2>2, <2>3
  <1> HIDE DEF status
  <1>4. RowTypes'
    <2>1. prow' \in Row /\ prow'.version = prow.version + 1
      BY <1>1, <1>2, <1>3 DEF Row
    <2>2. QED
      BY <1>1, <1>3, <2>1, ProviderRuntimeAssumption DEF RuntimeInv, RowTypes, Row
  <1>5. ReadyIsProved' /\ DisabledIsTold'
    BY <1>1, <1>2, <1>3 DEF ReadyIsProved, DisabledIsTold, Row
  <1>6. AloneIsAlone'
    BY DEF RuntimeInv, AloneIsAlone
  <1>7. SessionIsKept'
    BY <1>1, <1>3 DEF RuntimeInv, SessionIsKept, EffectiveSession, LocalSession, Row
  <1>8. QED
    BY <1>1, <1>3, <1>4, <1>5, <1>6, <1>7 DEF Row

LEMMA PrepareKeeps ==
    ASSUME RuntimeInv, NEW p \in Prober, NEW version, PrepareCheck(p, version)
    PROVE  RuntimeInv'
  <1>1. CASE Blocker = "none"
    <2>1. /\ prow.version = version /\ UNCHANGED <<prow, provedAt, staleStatus, changes, needsCookie,
                                          storedCookie, imports, lastSession>>
          /\ probes' = [probes EXCEPT ![p] = [version |-> version, began |-> changes]]
      BY <1>1 DEF PrepareCheck, Fenced
    <2>2. RowTypes' /\ PlansAreFenced'
      BY <2>1 DEF RuntimeInv, RowTypes, PlansAreFenced, Row
    <2>3. QED
      BY <2>1, <2>2 DEF RuntimeInv, ReadyIsProved, DisabledIsTold, AloneIsAlone, SessionIsKept
  <1>2. CASE Blocker # "none"
    <2>1. /\ Complete(version, FALSE, changes)
          /\ UNCHANGED <<probes, changes, needsCookie, storedCookie, imports, lastSession>>
      BY <1>2 DEF PrepareCheck
    <2>2. RowTypes' /\ prow'.version = prow.version + 1
          /\ ReadyIsProved' /\ DisabledIsTold' /\ AloneIsAlone' /\ SessionIsKept'
      BY <2>1, CompleteKeeps DEF RuntimeInv, RowTypes
    <2>3. PlansAreFenced'
      BY <2>1, <2>2 DEF RuntimeInv, RowTypes, PlansAreFenced
    <2>4. QED
      BY <2>2, <2>3 DEF RuntimeInv
  <1>3. QED
    BY <1>1, <1>2

LEMMA FinishKeeps ==
    ASSUME RuntimeInv, NEW p \in Prober, NEW success \in BOOLEAN, FinishCheck(p, success)
    PROVE  RuntimeInv'
  <1>1. /\ probes[p] # NoPlan /\ probes' = [probes EXCEPT ![p] = NoPlan]
        /\ UNCHANGED <<changes, needsCookie, storedCookie, imports, lastSession>>
    BY DEF FinishCheck
  <1>2. DOMAIN probes' = Prober /\ \A q \in Prober : q # p => probes'[q] = probes[q]
    BY <1>1 DEF RuntimeInv, RowTypes
  <1>3. probes'[p] = NoPlan
    BY <1>1 DEF RuntimeInv, RowTypes
  <1>4. CASE Fenced(probes[p].version)
    <2>1. Complete(probes[p].version, success, changes)
      BY <1>1, <1>4 DEF FinishCheck, RuntimeInv, PlansAreFenced, Fenced
    <2>2. RowTypes' /\ prow'.version = prow.version + 1
          /\ ReadyIsProved' /\ DisabledIsTold' /\ AloneIsAlone' /\ SessionIsKept'
      BY <1>1, <1>2, <2>1, CompleteKeeps
    <2>3. PlansAreFenced'
      BY <1>1, <1>2, <1>3, <2>2 DEF RuntimeInv, RowTypes, PlansAreFenced
    <2>4. QED
      BY <2>2, <2>3 DEF RuntimeInv
  <1>5. CASE ~Fenced(probes[p].version)
    <2>1. UNCHANGED <<prow, provedAt, staleStatus>>
      BY <1>5 DEF FinishCheck
    <2>2. QED
      BY <1>1, <1>2, <1>3, <2>1
         DEF RuntimeInv, RowTypes, PlansAreFenced, ReadyIsProved, DisabledIsTold,
             AloneIsAlone, SessionIsKept
  <1>6. QED
    BY <1>4, <1>5

----------------------------------------------------------------------------
LEMMA SessionKeeps ==
    ASSUME RuntimeInv, NEW i \in Importer, NEW kind \in {"save", "try", "delete"},
           StartSession(i, kind) \/ ReadRow(i)
    PROVE  RuntimeInv'
  <1>1. /\ UNCHANGED <<needsCookie, prow, probes, changes, provedAt, staleStatus>>
        /\ DOMAIN imports' = Importer
        /\ \A j \in Importer : j # i => imports'[j] = imports[j]
    BY DEF StartSession, ReadRow, RuntimeInv, RowTypes
  <1>2. "status" \in DOMAIN imports'[i] => imports'[i].status \in RuntimeStatus
    <2>1. CASE StartSession(i, kind)
      <3>1. imports'[i] = [kind |-> kind]
        BY <2>1 DEF StartSession, RuntimeInv, RowTypes
      <3>2. QED
        BY <3>1
    <2>2. CASE ReadRow(i)
      <3>1. imports'[i].status = prow.status
        BY <2>2 DEF ReadRow, RuntimeInv, RowTypes
      <3>2. QED
        BY <3>1 DEF RuntimeInv, RowTypes, Row
    <2>3. QED
      BY <2>1, <2>2
  <1>3. RowTypes' /\ PlansAreFenced' /\ ReadyIsProved' /\ DisabledIsTold'
    <2>1. RowTypes'
      <3>1. ASSUME NEW j \in Importer, "status" \in DOMAIN imports'[j]
            PROVE  imports'[j].status \in RuntimeStatus
        BY <1>1, <1>2, <3>1 DEF RuntimeInv, RowTypes
      <3>2. QED
        BY <1>1, <3>1 DEF RuntimeInv, RowTypes
    <2>2. QED
      BY <1>1, <2>1 DEF RuntimeInv, PlansAreFenced, ReadyIsProved, DisabledIsTold
  <1>4. AloneIsAlone' /\ SessionIsKept'
    <2>1. CASE StartSession(i, kind)
      <3>1. /\ lastSession' \in {"alone", "overlapped"}
            /\ lastSession' = "alone" => \A j \in Importer : imports[j] = NoImport
            /\ imports'[i].kind = kind
            /\ kind = "save" => storedCookie'
        BY <2>1 DEF StartSession, RuntimeInv, RowTypes
      <3>2. QED
        BY <1>1, <3>1 DEF AloneIsAlone, SessionIsKept
    <2>2. CASE ReadRow(i)
      <3>1. /\ UNCHANGED <<lastSession, storedCookie>> /\ imports[i] # NoImport
            /\ imports'[i].kind = imports[i].kind
        BY <2>2 DEF ReadRow, RuntimeInv, RowTypes
      <3>2. QED
        BY <1>1, <3>1 DEF RuntimeInv, AloneIsAlone, SessionIsKept
    <2>3. QED
      BY <2>1, <2>2
  <1>5. QED
    BY <1>3, <1>4 DEF RuntimeInv

LEMMA RecordKeeps ==
    ASSUME RuntimeInv, NEW i \in Importer, RecordSession(i)
    PROVE  RuntimeInv'
  <1> DEFINE taken == imports[i]
             available == taken.kind = "save"
             Status(row) == IF row.enabled /\ ~available THEN "blocked" ELSE row.status
  <1>1. /\ taken # NoImport /\ prow.version < MaxVersion
        /\ prow' = [prow EXCEPT !.session = IF available THEN "available" ELSE "missing",
                                !.status = Status(taken), !.version = @ + 1]
        /\ staleStatus' = (Status(taken) # Status(prow) \/ (staleStatus /\ Status(prow) = prow.status))
        /\ imports' = [imports EXCEPT ![i] = NoImport]
        /\ lastSession' = IF lastSession = "alone" THEN taken.kind ELSE "overlapped"
        /\ UNCHANGED <<needsCookie, storedCookie, probes, changes, provedAt>>
    BY DEF RecordSession, NoImport
  <1> HIDE DEF Status, available
  <1>2. /\ prow \in Row /\ prow'.version = prow.version + 1
        /\ prow'.enabled = prow.enabled /\ prow'.status = Status(taken)
        /\ prow'.session = IF available THEN "available" ELSE "missing"
    BY <1>1 DEF RuntimeInv, RowTypes, Row
  <1>3. Status(taken) \in RuntimeStatus
    BY <1>1 DEF RecordSession, RuntimeInv, RowTypes, Status, RuntimeStatus
  <1>4. RowTypes'
    <2>1. prow' \in Row
      <3>1. /\ (IF available THEN "available" ELSE "missing") \in {"not_required", "available", "missing"}
            /\ prow.version + 1 \in Nat
        BY <1>2 DEF Row
      <3>2. QED
        BY <1>1, <1>2, <1>3, <3>1 DEF Row
    <2>2. \A j \in Importer : imports'[j] = IF j = i THEN NoImport ELSE imports[j]
      BY <1>1 DEF RuntimeInv, RowTypes
    <2>3. "status" \notin DOMAIN NoImport
      BY DEF NoImport
    <2>4. DOMAIN imports' = Importer
      BY <1>1 DEF RuntimeInv, RowTypes
    <2>5. QED
      BY <1>1, <1>2, <2>1, <2>2, <2>3, <2>4, ProviderRuntimeAssumption DEF RuntimeInv, RowTypes
  <1>5. PlansAreFenced'
    BY <1>1, <1>2 DEF RuntimeInv, RowTypes, PlansAreFenced
  <1>6. ReadyIsProved'
    <2> SUFFICES ASSUME Status(taken) = "ready", ~staleStatus' PROVE provedAt = changes
      BY <1>1, <1>2 DEF ReadyIsProved
    <2>1. Status(prow) = "ready"
      BY <1>1
    <2>2. prow.status = "ready"
      BY <2>1 DEF Status
    <2>3. QED
      BY <1>1, <2>1, <2>2 DEF RuntimeInv, ReadyIsProved
  <1>7. DisabledIsTold'
    <2> SUFFICES ASSUME ~prow.enabled, ~staleStatus' PROVE Status(taken) = "disabled"
      BY <1>1, <1>2 DEF DisabledIsTold
    <2>1. Status(prow) = prow.status
      BY DEF Status
    <2>2. Status(taken) = Status(prow) /\ ~staleStatus
      BY <1>1, <2>1
    <2>3. QED
      BY <2>1, <2>2 DEF RuntimeInv, DisabledIsTold
  <1>8. AloneIsAlone' /\ SessionIsKept'
    <2>1. lastSession = "alone" => /\ \A j \in Importer : j # i => imports[j] = NoImport
                                   /\ available => storedCookie
      BY <1>1 DEF RuntimeInv, AloneIsAlone, available
    <2>2. \A j \in Importer : imports'[j] = IF j = i THEN NoImport ELSE imports[j]
      BY <1>1 DEF RuntimeInv, RowTypes
    <2>3. AloneIsAlone'
      BY <1>1, <2>1, <2>2 DEF AloneIsAlone
    <2>4. SessionIsKept'
      BY <1>1, <1>2, <2>1 DEF SessionIsKept, available
    <2>5. QED
      BY <2>3, <2>4
  <1>9. QED
    BY <1>4, <1>5, <1>6, <1>7, <1>8 DEF RuntimeInv

LEMMA RestartKeeps == RuntimeInv /\ RestartRuntime => RuntimeInv'
  <1> SUFFICES ASSUME RuntimeInv, RestartRuntime PROVE RuntimeInv'
    OBVIOUS
  <1>1. /\ probes' = [p \in Prober |-> NoPlan] /\ imports' = [i \in Importer |-> NoImport]
        /\ UNCHANGED <<needsCookie, prow, storedCookie, changes, provedAt, staleStatus>>
        /\ lastSession' = IF lastSession = "alone" THEN "overlapped" ELSE lastSession
    BY DEF RestartRuntime
  <1>2. RowTypes'
    BY <1>1 DEF RuntimeInv, RowTypes, NoImport
  <1>3. PlansAreFenced' /\ AloneIsAlone'
    BY <1>1 DEF PlansAreFenced, AloneIsAlone
  <1>4. ReadyIsProved' /\ DisabledIsTold' /\ SessionIsKept'
    BY <1>1 DEF RuntimeInv, ReadyIsProved, DisabledIsTold, SessionIsKept
  <1>5. QED
    BY <1>2, <1>3, <1>4 DEF RuntimeInv

----------------------------------------------------------------------------
LEMMA InitRuntimeInv == RuntimeInit => RuntimeInv
  <1> SUFFICES ASSUME RuntimeInit PROVE RuntimeInv
    OBVIOUS
  <1>1. LocalSession \in {"not_required", "available", "missing"}
    BY DEF LocalSession
  <1>2. prow \in Row /\ prow.version = 1 /\ prow.status = "disabled"
    BY <1>1 DEF RuntimeInit, Row, Profile, RuntimeStatus
  <1>3. RowTypes
    BY <1>2, ProviderRuntimeAssumption DEF RuntimeInit, RowTypes, NoImport
  <1>4. PlansAreFenced /\ AloneIsAlone
    BY DEF RuntimeInit, PlansAreFenced, AloneIsAlone
  <1>5. ReadyIsProved /\ DisabledIsTold /\ SessionIsKept
    BY <1>2 DEF RuntimeInit, ReadyIsProved, DisabledIsTold, SessionIsKept
  <1>6. QED
    BY <1>3, <1>4, <1>5 DEF RuntimeInv

LEMMA NextRuntimeInv == RuntimeInv /\ [RuntimeNext]_runtimeVars => RuntimeInv'
  <1> SUFFICES ASSUME RuntimeInv, [RuntimeNext]_runtimeVars PROVE RuntimeInv'
    OBVIOUS
  <1>1. CASE UNCHANGED runtimeVars
    BY <1>1 DEF runtimeVars, RuntimeInv, RowTypes, PlansAreFenced, ReadyIsProved,
                DisabledIsTold, AloneIsAlone, SessionIsKept
  <1>2. ASSUME NEW v \in 1..MaxVersion, NEW profile \in Profile, SaveConfiguration(v, profile)
        PROVE  RuntimeInv'
    BY <1>2, OperatorSteps
  <1>3. ASSUME NEW v \in 1..MaxVersion, NEW enabled \in BOOLEAN, SetEnabled(v, enabled)
        PROVE  RuntimeInv'
    BY <1>3, OperatorSteps DEF Profile
  <1>4. ASSUME NEW v \in 1..MaxVersion, ClearError(v) PROVE RuntimeInv'
    BY <1>4, OperatorSteps DEF Profile
  <1>5. QED
    BY <1>1, <1>2, <1>3, <1>4, PrepareKeeps, FinishKeeps, SessionKeeps, RecordKeeps, RestartKeeps
       DEF RuntimeNext

----------------------------------------------------------------------------
LEMMA CatalogIsCurrent == RuntimeInv => CatalogCurrent
  <1> SUFFICES ASSUME RuntimeInv PROVE CatalogCurrent
    OBVIOUS
  <1>1. ReadyWasProbed
    BY DEF RuntimeInv, ReadyIsProved, ReadyWasProbed, InCatalog
  <1>2. LastSessionDecides
    BY DEF RuntimeInv, RowTypes, Row, SessionIsKept, LastSessionDecides, InCatalog, Blocker,
           EffectiveSession, LocalSession
  <1>3. QED
    BY <1>1, <1>2 DEF CatalogCurrent

\* The search catalogue offers a provider only on a probe that began after the
\* operator's last change of it and in agreement with the newest session operation
\* (complete_health_check's version fence, search_catalog), unless an import wrote
\* back a status it had read before.
THEOREM CatalogIsAlwaysCurrent == RuntimeSpec => []CatalogCurrent
  BY InitRuntimeInv, NextRuntimeInv, CatalogIsCurrent, PTL DEF RuntimeSpec

-------------------------------------------------------------------------------
Health == [ok : BOOLEAN, listed : BOOLEAN, fails : Nat, cooling : BOOLEAN]
ProxyRows == [Proxy -> [enabled : BOOLEAN, health : Health]]
PoolFile == [denies : BOOLEAN, proxies : ProxyRows]
CheckState == [at : {"idle", "probing"}, copy : PoolFile, todo : SUBSET Proxy]

EgressTypes ==
    /\ pool \in PoolFile
    /\ checks \in [Checker -> CheckState]
    /\ streak \in [Proxy -> Nat]

\* The update lock: only its holder checks.
OneCheck ==
    \A c \in Checker :
        IF checks[c].at = "idle" THEN checks[c].todo = {} ELSE poolLock = c

\* What a check's copy counts for p when n failures of p are saved in a row: n
\* itself before the probe of p, and what the probe makes of it after.
CopyCount(k, p, n) ==
    k.copy.proxies[p].health.fails =
        IF p \in k.todo \/ ~k.copy.proxies[p].enabled THEN n
        ELSE IF k.copy.proxies[p].health.ok THEN 0 ELSE n + 1

CopyCounts ==
    \A c \in Checker, p \in Proxy \ overwritten :
        checks[c].at = "probing" => CopyCount(checks[c], p, streak[p])

TodoEnabled ==
    \A c \in Checker, p \in Proxy : p \in checks[c].todo => checks[c].copy.proxies[p].enabled

EgressInv == EgressTypes /\ OneCheck /\ CopyCounts /\ TodoEnabled /\ FailuresCounted

----------------------------------------------------------------------------
LEMMA NewPoolType == NewPool \in PoolFile /\ NeverProbed \in Health /\ NeverProbed.fails = 0
  BY DEF NewPool, NeverProbed, PoolFile, ProxyRows, Health

LEMMA IdleCheckType == IdleCheck \in CheckState /\ IdleCheck.at = "idle" /\ IdleCheck.todo = {}
  BY NewPoolType DEF IdleCheck, CheckState

\* A probe that goes well starts the count again, one that does not adds one.
LEMMA ProbeCounts ==
    ASSUME NEW pooled \in PoolFile, NEW health \in Health, NEW found \in Found
    PROVE  /\ Probed(pooled, health, found) \in Health
           /\ Probed(pooled, health, found).fails =
                  IF Probed(pooled, health, found).ok THEN 0 ELSE health.fails + 1
  <1> DEFINE bad == found = "dead" \/ (pooled.denies /\ found = "listed")
  <1>1. bad \in BOOLEAN /\ (found = "listed") \in BOOLEAN /\ health.fails \in Nat
    BY DEF Health, PoolFile
  <1>2. Probed(pooled, health, found) =
            [ok |-> ~bad, listed |-> found = "listed",
             fails |-> IF bad THEN health.fails + 1 ELSE 0, cooling |-> bad]
    BY Zenon DEF Probed
  <1> HIDE DEF bad
  <1>3. Probed(pooled, health, found).ok = ~bad
    BY <1>2
  <1>4. Probed(pooled, health, found).fails = IF bad THEN health.fails + 1 ELSE 0
    BY <1>2
  <1>5. (IF bad THEN health.fails + 1 ELSE 0) \in Nat /\ (~bad) \in BOOLEAN
    BY <1>1
  <1>6. Probed(pooled, health, found) \in Health
    BY <1>1, <1>2, <1>5 DEF Health
  <1>7. QED
    BY <1>1, <1>3, <1>4, <1>6

LEMMA InitEgressInv == EgressInit => EgressInv
  <1> SUFFICES ASSUME EgressInit PROVE EgressInv
    OBVIOUS
  <1>1. EgressTypes
    BY NewPoolType, IdleCheckType DEF EgressInit, EgressTypes
  <1>2. OneCheck /\ CopyCounts /\ TodoEnabled
    BY IdleCheckType DEF EgressInit, OneCheck, CopyCounts, TodoEnabled
  <1>3. FailuresCounted
    BY NewPoolType DEF EgressInit, FailuresCounted, NewPool
  <1>4. QED
    BY <1>1, <1>2, <1>3 DEF EgressInv

LEMMA LoadKeepsPool ==
    ASSUME EgressInv, NEW c \in Checker, LoadPool(c)
    PROVE  EgressInv'
  <1> DEFINE loaded == [at |-> "probing", copy |-> pool,
                        todo |-> {p \in Proxy : pool.proxies[p].enabled}]
  <1>1. /\ poolLock = NoChoice /\ poolLock' = c
        /\ checks' = [checks EXCEPT ![c] = loaded]
        /\ UNCHANGED <<pool, streak, overwritten>>
    BY DEF LoadPool
  <1>2. /\ loaded \in CheckState /\ loaded.at = "probing" /\ loaded.copy = pool
        /\ loaded.todo = {p \in Proxy : pool.proxies[p].enabled}
    BY DEF EgressInv, EgressTypes, CheckState
  <1> HIDE DEF loaded
  <1>3. \A d \in Checker : checks'[d] = IF d = c THEN loaded ELSE checks[d]
    BY <1>1 DEF EgressInv, EgressTypes
  <1>4. \A d \in Checker : checks[d].at = "idle"
    BY <1>1, NoChoiceAssumption DEF EgressInv, EgressTypes, OneCheck, CheckState
  <1>5. EgressTypes'
    BY <1>1, <1>2 DEF EgressInv, EgressTypes
  <1>6. OneCheck' /\ TodoEnabled'
    BY <1>1, <1>2, <1>3, <1>4 DEF EgressInv, OneCheck, TodoEnabled
  <1>7. CopyCounts'
    <2>1. \A q \in Proxy \ overwritten : CopyCount(loaded, q, streak[q])
      BY <1>2 DEF EgressInv, FailuresCounted, CopyCount
    <2>2. \A d \in Checker : checks'[d].at = "probing" => checks'[d] = loaded
      BY <1>3, <1>4
    <2>3. QED
      BY <1>1, <2>1, <2>2 DEF CopyCounts
  <1>8. FailuresCounted'
    BY <1>1 DEF EgressInv, FailuresCounted
  <1>9. QED
    BY <1>5, <1>6, <1>7, <1>8 DEF EgressInv

LEMMA WithHealthType ==
    ASSUME NEW pooled \in PoolFile, NEW p \in Proxy, NEW health \in Health
    PROVE  /\ WithHealth(pooled, p, health) \in PoolFile
           /\ WithHealth(pooled, p, health).proxies[p].health = health
           /\ \A q \in Proxy :
                /\ WithHealth(pooled, p, health).proxies[q].enabled = pooled.proxies[q].enabled
                /\ q # p => WithHealth(pooled, p, health).proxies[q] = pooled.proxies[q]
  <1> DEFINE row == [pooled.proxies[p] EXCEPT !.health = health]
             rows == [pooled.proxies EXCEPT ![p] = row]
  <1>1. /\ row \in [enabled : BOOLEAN, health : Health] /\ row.health = health
        /\ row.enabled = pooled.proxies[p].enabled
    BY DEF PoolFile, ProxyRows
  <1>2. WithHealth(pooled, p, health) = [pooled EXCEPT !.proxies = rows]
    BY DEF WithHealth, PoolFile, ProxyRows
  <1> HIDE DEF row
  <1>3. rows \in ProxyRows /\ rows[p] = row /\ \A q \in Proxy : q # p => rows[q] = pooled.proxies[q]
    BY <1>1 DEF PoolFile, ProxyRows
  <1> HIDE DEF rows
  <1>4. WithHealth(pooled, p, health) \in PoolFile /\ WithHealth(pooled, p, health).proxies = rows
    BY <1>2, <1>3 DEF PoolFile
  <1>5. QED
    BY <1>1, <1>3, <1>4

\* A file in which one proxy has this health and nothing else changed.
OnlyHealth(f, g, p, health) ==
    /\ g \in PoolFile /\ g.proxies[p].health = health
    /\ \A q \in Proxy : /\ g.proxies[q].enabled = f.proxies[q].enabled
                        /\ q # p => g.proxies[q] = f.proxies[q]

LEMMA WithHealthIs ==
    ASSUME NEW f \in PoolFile, NEW p \in Proxy, NEW health \in Health
    PROVE  OnlyHealth(f, WithHealth(f, p, health), p, health)
  BY WithHealthType DEF OnlyHealth

LEMMA ProbeKeeps ==
    ASSUME EgressInv, NEW c \in Checker, NEW p \in Proxy, NEW found \in Found, ProbeOne(c, p, found)
    PROVE  EgressInv'
  <1> DEFINE pooled == checks[c].copy
             health == Probed(pooled, pooled.proxies[p].health, found)
             probed == [at |-> "probing", copy |-> WithHealth(pooled, p, health),
                        todo |-> checks[c].todo \ {p}]
  <1>1. /\ p \in checks[c].todo
        /\ checks' = [checks EXCEPT ![c] = probed]
        /\ UNCHANGED <<pool, poolLock, streak, overwritten>>
    BY DEF ProbeOne
  <1>2. /\ pooled \in PoolFile /\ pooled.proxies[p].health \in Health /\ checks[c] \in CheckState
        /\ checks[c].at = "probing" /\ pooled.proxies[p].enabled
    BY <1>1 DEF EgressInv, EgressTypes, OneCheck, TodoEnabled, CheckState, PoolFile, ProxyRows
  <1>3. health \in Health /\ health.fails = IF health.ok THEN 0 ELSE pooled.proxies[p].health.fails + 1
    BY <1>2, ProbeCounts
  <1> HIDE DEF health
  <1> PICK copy, todo : copy = WithHealth(pooled, p, health) /\ todo = checks[c].todo \ {p}
    OBVIOUS
  <1>a. /\ copy \in PoolFile /\ copy.proxies[p].health = health
        /\ \A q \in Proxy : /\ copy.proxies[q].enabled = pooled.proxies[q].enabled
                            /\ q # p => copy.proxies[q] = pooled.proxies[q]
    <2> HIDE DEF pooled, probed
    <2>1. OnlyHealth(pooled, copy, p, health)
      BY <1>2, <1>3, WithHealthIs, Zenon
    <2>2. QED
      BY <2>1, Zenon DEF OnlyHealth
  <1>b. probed = [at |-> "probing", copy |-> copy, todo |-> todo]
    OBVIOUS
  <1>c. todo \in SUBSET Proxy
    BY <1>2 DEF CheckState
  <1> HIDE DEF probed
  <1>4. /\ probed.copy \in PoolFile /\ probed.copy.proxies[p].health = health
        /\ \A q \in Proxy : /\ probed.copy.proxies[q].enabled = pooled.proxies[q].enabled
                            /\ q # p => probed.copy.proxies[q] = pooled.proxies[q]
    BY <1>a, <1>b
  <1>5. probed \in CheckState /\ probed.at = "probing" /\ probed.todo = checks[c].todo \ {p}
    BY <1>a, <1>b, <1>c DEF CheckState
  <1>6. \A d \in Checker : checks'[d] = IF d = c THEN probed ELSE checks[d]
    BY <1>1 DEF EgressInv, EgressTypes
  <1>7. EgressTypes'
    BY <1>1, <1>5 DEF EgressInv, EgressTypes
  <1>8. OneCheck' /\ TodoEnabled'
    <2>1. OneCheck'
      BY <1>1, <1>2, <1>5, <1>6 DEF EgressInv, OneCheck
    <2>2. ASSUME NEW d \in Checker, NEW q \in Proxy, q \in checks'[d].todo
          PROVE  checks'[d].copy.proxies[q].enabled
      <3>1. CASE d = c
        BY <1>4, <1>5, <1>6, <2>2, <3>1 DEF EgressInv, TodoEnabled
      <3>2. CASE d # c
        BY <1>6, <2>2, <3>2 DEF EgressInv, TodoEnabled
      <3>3. QED
        BY <3>1, <3>2
    <2>3. QED
      BY <2>1, <2>2 DEF TodoEnabled
  <1>9. CopyCounts'
    <2> SUFFICES ASSUME NEW q \in Proxy \ overwritten
                 PROVE  CopyCount(probed, q, streak[q])
      <3>1. ASSUME NEW d \in Checker, d # c
            PROVE  checks'[d] = checks[d]
        BY <1>6, <3>1
      <3>2. ASSUME NEW d \in Checker, d # c, checks'[d].at = "probing"
            PROVE  FALSE
        BY <1>1, <1>2, <3>1, <3>2 DEF EgressInv, OneCheck
      <3>3. checks'[c] = probed
        BY <1>6
      <3>4. QED
        BY <1>1, <3>2, <3>3 DEF CopyCounts
    <2>1. CopyCount(checks[c], q, streak[q])
      BY <1>2 DEF EgressInv, CopyCounts
    <2>2. CASE q = p
      BY <1>1, <1>2, <1>3, <1>4, <1>5, <2>1, <2>2 DEF CopyCount
    <2>3. CASE q # p
      BY <1>4, <1>5, <2>1, <2>3 DEF CopyCount
    <2>4. QED
      BY <2>2, <2>3
  <1>10. FailuresCounted'
    BY <1>1 DEF EgressInv, FailuresCounted
  <1>11. QED
    BY <1>7, <1>8, <1>9, <1>10 DEF EgressInv

LEMMA EndKeeps ==
    ASSUME EgressInv, NEW c \in Checker, SavePool(c) \/ AbandonCheck(c)
    PROVE  EgressInv'
  <1>1. /\ checks[c].at = "probing" /\ checks' = [checks EXCEPT ![c] = IdleCheck]
        /\ UNCHANGED overwritten
    BY DEF SavePool, AbandonCheck
  <1>2. \A d \in Checker : checks'[d] = IF d = c THEN IdleCheck ELSE checks[d]
    BY <1>1 DEF EgressInv, EgressTypes
  <1>3. \A d \in Checker : checks'[d].at = "idle" /\ checks'[d].todo = {}
    BY <1>1, <1>2, IdleCheckType DEF EgressInv, EgressTypes, OneCheck, CheckState
  <1>4. OneCheck' /\ TodoEnabled' /\ CopyCounts'
    BY <1>3 DEF OneCheck, TodoEnabled, CopyCounts
  <1>5. checks' \in [Checker -> CheckState]
    BY <1>1, IdleCheckType DEF EgressInv, EgressTypes
  <1>6. CASE SavePool(c)
    <2>1. checks[c].copy \in PoolFile /\ checks[c].todo = {} /\ pool' = checks[c].copy
          /\ streak' = [p \in Proxy |->
                          IF ~pool'.proxies[p].enabled THEN streak[p]
                          ELSE IF pool'.proxies[p].health.ok THEN 0 ELSE streak[p] + 1]
      BY <1>6 DEF SavePool, EgressInv, EgressTypes, CheckState
    <2>2. EgressTypes'
      BY <1>5, <2>1 DEF EgressInv, EgressTypes
    <2>3. FailuresCounted'
      BY <1>1, <2>1 DEF EgressInv, CopyCounts, FailuresCounted, CopyCount
    <2>4. QED
      BY <1>4, <2>2, <2>3 DEF EgressInv
  <1>7. CASE AbandonCheck(c)
    BY <1>1, <1>4, <1>5, <1>7 DEF AbandonCheck, EgressInv, EgressTypes, FailuresCounted
  <1>8. QED
    BY <1>6, <1>7

LEMMA EditKeeps ==
    ASSUME EgressInv, NEW p \in Proxy, EditPool(p)
    PROVE  EgressInv'
  <1>1. UNCHANGED <<poolLock, checks>> /\ OneCheck' /\ TodoEnabled'
    BY DEF EditPool, EgressInv, OneCheck, TodoEnabled
  <1>2. CASE pool' = [pool EXCEPT !.proxies[p].enabled = ~@] /\ UNCHANGED <<streak, overwritten>>
    <2> DEFINE row == [pool.proxies[p] EXCEPT !.enabled = ~@]
               rows == [pool.proxies EXCEPT ![p] = row]
    <2>1. row \in [enabled : BOOLEAN, health : Health] /\ row.health = pool.proxies[p].health
      BY DEF EgressInv, EgressTypes, PoolFile, ProxyRows
    <2>2. pool' = [pool EXCEPT !.proxies = rows]
      BY <1>2 DEF EgressInv, EgressTypes, PoolFile, ProxyRows
    <2> HIDE DEF row
    <2>3. rows \in ProxyRows /\ \A q \in Proxy : rows[q].health = pool.proxies[q].health
      BY <2>1 DEF EgressInv, EgressTypes, PoolFile, ProxyRows
    <2> HIDE DEF rows
    <2>4. pool' \in PoolFile /\ \A q \in Proxy : pool'.proxies[q].health = pool.proxies[q].health
      BY <2>2, <2>3 DEF EgressInv, EgressTypes, PoolFile
    <2>5. QED
      BY <1>1, <1>2, <2>4 DEF EgressInv, EgressTypes, CopyCounts, FailuresCounted
  <1>3. CASE pool' = [pool EXCEPT !.denies = ~@] /\ UNCHANGED <<streak, overwritten>>
    <2>1. pool' \in PoolFile /\ pool'.proxies = pool.proxies
      BY <1>3 DEF EgressInv, EgressTypes, PoolFile
    <2>2. QED
      BY <1>1, <1>3, <2>1 DEF EgressInv, EgressTypes, CopyCounts, FailuresCounted
  <1>4. CASE /\ pool' = WithHealth(pool, p, NeverProbed) /\ streak' = [streak EXCEPT ![p] = 0]
             /\ overwritten' = IF poolLock = NoChoice THEN overwritten \ {p} ELSE overwritten \cup {p}
    <2>1. /\ pool' \in PoolFile /\ pool'.proxies[p].health.fails = 0
          /\ \A q \in Proxy : q # p => pool'.proxies[q] = pool.proxies[q]
      BY <1>4, NewPoolType, WithHealthType DEF EgressInv, EgressTypes
    <2>2. /\ streak' \in [Proxy -> Nat] /\ streak'[p] = 0
          /\ \A q \in Proxy : q # p => streak'[q] = streak[q]
      BY <1>4 DEF EgressInv, EgressTypes
    <2>3. EgressTypes' /\ FailuresCounted'
      BY <1>1, <1>4, <2>1, <2>2 DEF EgressInv, EgressTypes, FailuresCounted
    <2>4. CopyCounts'
      <3>1. CASE poolLock = NoChoice
        <4>1. \A c \in Checker : checks'[c].at # "probing"
          BY <1>1, <3>1, NoChoiceAssumption DEF EgressInv, OneCheck
        <4>2. QED
          BY <4>1 DEF CopyCounts
      <3>2. CASE poolLock # NoChoice
        BY <1>1, <1>4, <2>2, <3>2 DEF EgressInv, CopyCounts
      <3>3. QED
        BY <3>1, <3>2
    <2>5. QED
      BY <1>1, <2>3, <2>4 DEF EgressInv
  <1>5. QED
    BY <1>2, <1>3, <1>4 DEF EditPool

LEMMA CooldownKeeps ==
    ASSUME EgressInv, NEW p \in Proxy, CooldownEnds(p)
    PROVE  EgressInv'
  <1> DEFINE Ended(pooled) == WithHealth(pooled, p, [pooled.proxies[p].health EXCEPT !.cooling = FALSE])
             Aged(c) == [at |-> checks[c].at, copy |-> Ended(checks[c].copy), todo |-> checks[c].todo]
  <1>1. /\ pool' = Ended(pool) /\ UNCHANGED <<poolLock, streak, overwritten>>
        /\ checks' = [c \in Checker |->
              IF p \in checks[c].todo \/ ~checks[c].copy.proxies[p].enabled
              THEN Aged(c) ELSE checks[c]]
    BY DEF CooldownEnds
  <1>2. ASSUME NEW pooled \in PoolFile
        PROVE  /\ Ended(pooled) \in PoolFile
               /\ \A q \in Proxy :
                    /\ Ended(pooled).proxies[q].enabled = pooled.proxies[q].enabled
                    /\ Ended(pooled).proxies[q].health.fails = pooled.proxies[q].health.fails
                    /\ Ended(pooled).proxies[q].health.ok = pooled.proxies[q].health.ok
    <2> DEFINE health == [pooled.proxies[p].health EXCEPT !.cooling = FALSE]
    <2>1. /\ health \in Health /\ health.fails = pooled.proxies[p].health.fails
          /\ health.ok = pooled.proxies[p].health.ok
      BY DEF PoolFile, ProxyRows, Health
    <2> HIDE DEF health
    <2>2. /\ WithHealth(pooled, p, health) \in PoolFile
          /\ WithHealth(pooled, p, health).proxies[p].health = health
          /\ \A q \in Proxy :
               /\ WithHealth(pooled, p, health).proxies[q].enabled = pooled.proxies[q].enabled
               /\ q # p => WithHealth(pooled, p, health).proxies[q] = pooled.proxies[q]
      BY <2>1, WithHealthType
    <2>3. Ended(pooled) = WithHealth(pooled, p, health)
      BY DEF health
    <2> HIDE DEF Ended
    <2>4. QED
      BY <2>1, <2>2, <2>3
  <1> HIDE DEF Ended
  <1>3. pool' \in PoolFile /\ \A q \in Proxy :
            pool'.proxies[q].health.fails = pool.proxies[q].health.fails
    BY <1>1, <1>2 DEF EgressInv, EgressTypes
  <1>4. ASSUME NEW c \in Checker
        PROVE  /\ checks'[c] \in CheckState
               /\ checks'[c].at = checks[c].at /\ checks'[c].todo = checks[c].todo
               /\ \A q \in Proxy :
                    /\ checks'[c].copy.proxies[q].enabled = checks[c].copy.proxies[q].enabled
                    /\ checks'[c].copy.proxies[q].health.fails = checks[c].copy.proxies[q].health.fails
                    /\ checks'[c].copy.proxies[q].health.ok = checks[c].copy.proxies[q].health.ok
    <2>1. checks[c] \in CheckState /\ checks[c].copy \in PoolFile
      BY DEF EgressInv, EgressTypes, CheckState
    <2>2. Aged(c) \in CheckState
      BY <1>2, <2>1 DEF CheckState
    <2>3. QED
      BY <1>1, <1>2, <2>1, <2>2
  <1>5. EgressTypes'
    BY <1>1, <1>3, <1>4 DEF EgressInv, EgressTypes
  <1>6. OneCheck' /\ TodoEnabled'
    BY <1>1, <1>4 DEF EgressInv, OneCheck, TodoEnabled
  <1>7. CopyCounts'
    <2>1. ASSUME NEW c \in Checker, NEW q \in Proxy \ overwritten, checks[c].at = "probing"
          PROVE  CopyCount(checks'[c], q, streak[q])
      <3> PICK old, new : old = checks[c] /\ new = checks'[c]
        OBVIOUS
      <3>1. CopyCount(old, q, streak[q])
        BY <2>1 DEF EgressInv, CopyCounts
      <3>2. /\ new.todo = old.todo /\ new.copy.proxies[q].enabled = old.copy.proxies[q].enabled
            /\ new.copy.proxies[q].health.fails = old.copy.proxies[q].health.fails
            /\ new.copy.proxies[q].health.ok = old.copy.proxies[q].health.ok
        BY <1>4
      <3>3. CopyCount(new, q, streak[q])
        BY <3>1, <3>2 DEF CopyCount
      <3>4. QED
        BY <3>3
    <2>2. \A c \in Checker : checks'[c].at = checks[c].at
      BY <1>4
    <2>3. QED
      BY <1>1, <2>1, <2>2 DEF CopyCounts
  <1>8. FailuresCounted'
    BY <1>1, <1>3 DEF EgressInv, FailuresCounted
  <1>9. QED
    BY <1>5, <1>6, <1>7, <1>8 DEF EgressInv

LEMMA NextEgressInv == EgressInv /\ [EgressNext]_egressVars => EgressInv'
  <1> SUFFICES ASSUME EgressInv, [EgressNext]_egressVars PROVE EgressInv'
    OBVIOUS
  <1>1. CASE SelectProxy \/ UNCHANGED egressVars
    BY <1>1 DEF SelectProxy, egressVars, EgressInv, EgressTypes, OneCheck, CopyCounts,
                TodoEnabled, FailuresCounted
  <1>2. QED
    BY <1>1, LoadKeepsPool, ProbeKeeps, EndKeeps, EditKeeps, CooldownKeeps DEF EgressNext

\* The failures the pool file counts for a proxy are its failed probes saved in a
\* row (egress/service.py build_snapshot under _POOL_UPDATE_LOCK, pool.py
\* probe_one), except for a proxy the operator edits during a check.
THEOREM FailuresAreCounted == EgressSpec => []FailuresCounted
  <1>1. EgressInv => FailuresCounted
    BY DEF EgressInv
  <1>2. QED
    BY <1>1, InitEgressInv, NextEgressInv, PTL DEF EgressSpec

(***************************************************************************)
(* The outbound client                                                     *)
(***************************************************************************)
Underway == {"global", "provider", "resolve", "connect", "tls", "answer", "body"}
Outcomes == {"refused", "timeout", "cancelled", "success"}
LiveCall ==
    [at : Underway, client : Client, endpoint : Endpoint, html : BOOLEAN, operation : Operation,
     late : BOOLEAN, ip : Address \cup {"none"},
     sent : [peer : Address \cup {"none"}, cookie : BOOLEAN, verified : BOOLEAN], size : Nat]

\* What was sent, and to whom, is settled by the address that was approved.
CallOK(call) ==
    \/ call = NoCall
    \/ call \in [at : Outcomes]
    \/ /\ call \in LiveCall
       /\ Allowed(call.html, call.operation)
       /\ call.ip # "private"
       /\ call.size <= ResponseLimit
       /\ \/ call.sent = NothingSent
          \/ /\ call.at \in {"answer", "body"}
             /\ call.sent.verified /\ call.sent.peer = call.ip /\ call.sent.cookie = call.html

\* The requests that hold a permit of a client, and of a provider.
Holders(c) == {r \in Call : HoldsGlobal(r) /\ calls[r].client = c}
Users(c, p) == {r \in Call : Working(r) /\ calls[r].client = c /\ calls[r].endpoint = p}

OutboundTypes ==
    /\ DOMAIN calls = Call
    /\ globalFree \in [Client -> Nat]
    /\ providerFree \in [Client -> [Endpoint -> Nat]]

\* Only requests that began hold a permit, so they are finitely many.
GlobalBalanced ==
    \A c \in Client : /\ IsFiniteSet(Holders(c))
                      /\ globalFree[c] + Cardinality(Holders(c)) = GlobalLimit
ProviderBalanced ==
    \A c \in Client, p \in Endpoint :
        /\ IsFiniteSet(Users(c, p))
        /\ providerFree[c][p] + Cardinality(Users(c, p)) = ProviderLimit

OutboundInv ==
    /\ OutboundTypes
    /\ \A r \in Call : CallOK(calls[r])
    /\ GlobalBalanced /\ ProviderBalanced

LEMMA OneMore ==
    ASSUME NEW S, NEW x, IsFiniteSet(S), x \notin S
    PROVE  /\ IsFiniteSet(S \cup {x}) /\ Cardinality(S) \in Nat
           /\ Cardinality(S \cup {x}) = Cardinality(S) + 1
  BY FS_AddElement, FS_CardinalityType

LEMMA OneLess ==
    ASSUME NEW S, NEW x \in S, IsFiniteSet(S)
    PROVE  /\ IsFiniteSet(S \ {x}) /\ Cardinality(S) \in Nat
           /\ Cardinality(S \ {x}) = Cardinality(S) - 1
  BY FS_RemoveElement, FS_CardinalityType

\* What a step of request r does to the permits.
Beside(r) == \A q \in Call \ {r} : calls'[q] = calls[q]

\* It holds what it held.
LEMMA PermitsKept ==
    ASSUME GlobalBalanced, ProviderBalanced, NEW r \in Call, Beside(r),
           HoldsGlobal(r)' <=> HoldsGlobal(r), Working(r)' <=> Working(r),
           HoldsGlobal(r) => /\ calls'[r].client = calls[r].client
                             /\ calls'[r].endpoint = calls[r].endpoint,
           UNCHANGED <<globalFree, providerFree>>
    PROVE  GlobalBalanced' /\ ProviderBalanced'
  <1>1. \A q \in Call : /\ HoldsGlobal(q)' <=> HoldsGlobal(q)
                        /\ Working(q)' <=> Working(q)
                        /\ HoldsGlobal(q) => /\ calls'[q].client = calls[q].client
                                             /\ calls'[q].endpoint = calls[q].endpoint
    BY DEF Beside, HoldsGlobal, Working
  <1>2. \A c \in Client : Holders(c)' = Holders(c)
    BY <1>1 DEF Holders
  <1>3. \A c \in Client, p \in Endpoint : Users(c, p)' = Users(c, p)
    BY <1>1 DEF Users, HoldsGlobal
  <1>4. QED
    BY <1>2, <1>3 DEF GlobalBalanced, ProviderBalanced

LEMMA TakeGlobalBalanced ==
    ASSUME OutboundInv, NEW r \in Call, TakeGlobal(r)
    PROVE  GlobalBalanced' /\ ProviderBalanced'
  <1> PICK d : d = calls[r].client
    OBVIOUS
  <1>1. calls[r] \in LiveCall /\ d \in Client
    BY DEF OutboundInv, CallOK, TakeGlobal, NoCall, Outcomes, LiveCall
  <1>2. /\ ~HoldsGlobal(r) /\ ~Working(r) /\ HoldsGlobal(r)' /\ ~Working(r)' /\ Beside(r)
        /\ calls'[r].client = d
    BY <1>1 DEF TakeGlobal, HoldsGlobal, Working, Beside, OutboundInv, OutboundTypes, LiveCall
  <1>3. \A q \in Call \ {r} : /\ HoldsGlobal(q)' <=> HoldsGlobal(q)
                              /\ Working(q)' <=> Working(q)
                              /\ calls'[q].client = calls[q].client
                              /\ calls'[q].endpoint = calls[q].endpoint
    BY <1>2 DEF Beside, HoldsGlobal, Working
  <1>4. \A c \in Client : Holders(c)' = IF c = d THEN Holders(c) \cup {r} ELSE Holders(c)
    BY <1>2, <1>3 DEF Holders
  <1>5. \A c \in Client, p \in Endpoint : Users(c, p)' = Users(c, p)
    BY <1>2, <1>3 DEF Users
  <1>6. \A c \in Client : /\ globalFree[c] \in Nat
                          /\ globalFree'[c] = IF c = d THEN globalFree[c] - 1 ELSE globalFree[c]
    BY DEF TakeGlobal, OutboundInv, OutboundTypes
  <1>7. ASSUME NEW c \in Client
        PROVE  /\ IsFiniteSet(Holders(c)')
               /\ globalFree'[c] + Cardinality(Holders(c)') = GlobalLimit
    <2>1. IsFiniteSet(Holders(c)) /\ globalFree[c] + Cardinality(Holders(c)) = GlobalLimit
      BY DEF OutboundInv, GlobalBalanced
    <2>2. r \notin Holders(c)
      BY <1>2 DEF Holders
    <2>3. QED
      BY <1>4, <1>6, <2>1, <2>2, OneMore
  <1>8. GlobalBalanced'
    BY <1>7 DEF GlobalBalanced
  <1>9. ProviderBalanced'
    BY <1>5 DEF ProviderBalanced, OutboundInv, TakeGlobal
  <1>10. QED
    BY <1>8, <1>9

LEMMA TakeProviderBalanced ==
    ASSUME OutboundInv, NEW r \in Call, TakeProvider(r)
    PROVE  GlobalBalanced' /\ ProviderBalanced'
  <1> PICK d, e : d = calls[r].client /\ e = calls[r].endpoint
    OBVIOUS
  <1>1. calls[r] \in LiveCall /\ d \in Client /\ e \in Endpoint
    BY DEF OutboundInv, CallOK, TakeProvider, NoCall, Outcomes, LiveCall
  <1>2. /\ HoldsGlobal(r) /\ ~Working(r) /\ HoldsGlobal(r)' /\ Working(r)' /\ Beside(r)
        /\ calls'[r].client = d /\ calls'[r].endpoint = e
    BY <1>1 DEF TakeProvider, HoldsGlobal, Working, Beside, OutboundInv, OutboundTypes, LiveCall
  <1>3. \A q \in Call \ {r} : /\ HoldsGlobal(q)' <=> HoldsGlobal(q)
                              /\ Working(q)' <=> Working(q)
                              /\ calls'[q].client = calls[q].client
                              /\ calls'[q].endpoint = calls[q].endpoint
    BY <1>2 DEF Beside, HoldsGlobal, Working
  <1>4. \A c \in Client : Holders(c)' = Holders(c)
    BY <1>2, <1>3 DEF Holders
  <1>5. \A c \in Client, p \in Endpoint :
            Users(c, p)' = IF c = d /\ p = e THEN Users(c, p) \cup {r} ELSE Users(c, p)
    BY <1>2, <1>3 DEF Users
  <1>6. \A c \in Client, p \in Endpoint :
            /\ providerFree[c][p] \in Nat
            /\ providerFree'[c][p] = IF c = d /\ p = e THEN providerFree[c][p] - 1
                                     ELSE providerFree[c][p]
    BY DEF TakeProvider, OutboundInv, OutboundTypes
  <1>7. ASSUME NEW c \in Client, NEW p \in Endpoint
        PROVE  /\ IsFiniteSet(Users(c, p)')
               /\ providerFree'[c][p] + Cardinality(Users(c, p)') = ProviderLimit
    <2>1. IsFiniteSet(Users(c, p)) /\ providerFree[c][p] + Cardinality(Users(c, p)) = ProviderLimit
      BY DEF OutboundInv, ProviderBalanced
    <2>2. r \notin Users(c, p)
      BY <1>2 DEF Users
    <2>3. /\ IsFiniteSet(Users(c, p) \cup {r}) /\ Cardinality(Users(c, p)) \in Nat
          /\ Cardinality(Users(c, p) \cup {r}) = Cardinality(Users(c, p)) + 1
      BY <2>1, <2>2, OneMore
    <2>4. CASE c = d /\ p = e
      <3>1. Users(c, p)' = Users(c, p) \cup {r}
        BY <1>5, <2>4
      <3>2. QED
        BY <1>6, <2>1, <2>3, <2>4, <3>1
    <2>5. CASE ~(c = d /\ p = e)
      <3>1. Users(c, p)' = Users(c, p)
        BY <1>5, <2>5
      <3>2. QED
        BY <1>6, <2>1, <2>5, <3>1
    <2>6. QED
      BY <2>4, <2>5
  <1>8. ProviderBalanced'
    BY <1>7 DEF ProviderBalanced
  <1>9. GlobalBalanced'
    BY <1>4 DEF GlobalBalanced, OutboundInv, TakeProvider
  <1>10. QED
    BY <1>8, <1>9

\* A request that ends, wherever it is, gives back what it holds and nothing else.
LEMMA EndBalanced ==
    ASSUME OutboundInv, NEW r \in Call, NEW outcome \in Outcomes, End(r, outcome),
           calls[r] \in LiveCall
    PROVE  GlobalBalanced' /\ ProviderBalanced'
  <1> PICK d, e : d = calls[r].client /\ e = calls[r].endpoint
    OBVIOUS
  <1>1. d \in Client /\ e \in Endpoint /\ (Working(r) => HoldsGlobal(r))
    BY DEF LiveCall, HoldsGlobal
  <1>2. calls'[r] = [at |-> outcome] /\ Beside(r)
    BY DEF End, Beside, OutboundInv, OutboundTypes
  <1>3. ~HoldsGlobal(r)' /\ ~Working(r)'
    BY <1>2 DEF HoldsGlobal, Working, Outcomes
  <1>4. \A q \in Call \ {r} : /\ HoldsGlobal(q)' <=> HoldsGlobal(q)
                              /\ Working(q)' <=> Working(q)
                              /\ calls'[q].client = calls[q].client
                              /\ calls'[q].endpoint = calls[q].endpoint
    BY <1>2 DEF Beside, HoldsGlobal, Working
  <1>5. \A c \in Client : Holders(c)' = Holders(c) \ {r}
    BY <1>3, <1>4 DEF Holders
  <1>6. \A c \in Client, p \in Endpoint : Users(c, p)' = Users(c, p) \ {r}
    BY <1>3, <1>4 DEF Users
  <1>7. \A c \in Client :
            /\ globalFree[c] \in Nat
            /\ globalFree'[c] = IF r \in Holders(c) THEN globalFree[c] + 1 ELSE globalFree[c]
    BY DEF End, OutboundInv, OutboundTypes, Holders
  <1>8. \A c \in Client, p \in Endpoint :
            /\ providerFree[c][p] \in Nat
            /\ providerFree'[c][p] = IF r \in Users(c, p) THEN providerFree[c][p] + 1
                                     ELSE providerFree[c][p]
    BY DEF End, OutboundInv, OutboundTypes, Users
  <1>9. ASSUME NEW c \in Client
        PROVE  /\ IsFiniteSet(Holders(c)')
               /\ globalFree'[c] + Cardinality(Holders(c)') = GlobalLimit
    <2>1. IsFiniteSet(Holders(c)) /\ globalFree[c] + Cardinality(Holders(c)) = GlobalLimit
      BY DEF OutboundInv, GlobalBalanced
    <2>2. CASE r \in Holders(c)
      <3>1. /\ IsFiniteSet(Holders(c) \ {r}) /\ Cardinality(Holders(c)) \in Nat
            /\ Cardinality(Holders(c) \ {r}) = Cardinality(Holders(c)) - 1
        BY <2>1, <2>2, OneLess
      <3>2. Holders(c)' = Holders(c) \ {r}
        BY <1>5
      <3>3. QED
        BY <1>7, <2>1, <2>2, <3>1, <3>2
    <2>3. CASE r \notin Holders(c)
      <3>1. Holders(c)' = Holders(c)
        BY <1>5, <2>3
      <3>2. QED
        BY <1>7, <2>1, <2>3, <3>1
    <2>4. QED
      BY <2>2, <2>3
  <1>10. ASSUME NEW c \in Client, NEW p \in Endpoint
         PROVE  /\ IsFiniteSet(Users(c, p)')
                /\ providerFree'[c][p] + Cardinality(Users(c, p)') = ProviderLimit
    <2>1. IsFiniteSet(Users(c, p)) /\ providerFree[c][p] + Cardinality(Users(c, p)) = ProviderLimit
      BY DEF OutboundInv, ProviderBalanced
    <2>2. CASE r \in Users(c, p)
      <3>1. /\ IsFiniteSet(Users(c, p) \ {r}) /\ Cardinality(Users(c, p)) \in Nat
            /\ Cardinality(Users(c, p) \ {r}) = Cardinality(Users(c, p)) - 1
        BY <2>1, <2>2, OneLess
      <3>2. Users(c, p)' = Users(c, p) \ {r}
        BY <1>6
      <3>3. QED
        BY <1>8, <2>1, <2>2, <3>1, <3>2
    <2>3. CASE r \notin Users(c, p)
      <3>1. Users(c, p)' = Users(c, p)
        BY <1>6, <2>3
      <3>2. QED
        BY <1>8, <2>1, <2>3, <3>1
    <2>4. QED
      BY <2>2, <2>3
  <1>11. QED
    BY <1>9, <1>10 DEF GlobalBalanced, ProviderBalanced

LEMMA InitOutboundInv == OutboundInit => OutboundInv
  <1> SUFFICES ASSUME OutboundInit PROVE OutboundInv
    OBVIOUS
  <1>1. \A r \in Call : calls[r] = NoCall /\ ~HoldsGlobal(r) /\ ~Working(r)
    BY DEF OutboundInit, NoCall, HoldsGlobal, Working
  <1>2. /\ \A c \in Client : Holders(c) = {}
        /\ \A c \in Client, p \in Endpoint : Users(c, p) = {}
    BY <1>1 DEF Holders, Users
  <1>3. OutboundTypes /\ \A c \in Client : globalFree[c] = GlobalLimit
    BY OutboundAssumption DEF OutboundTypes, OutboundInit
  <1>4. \A c \in Client, p \in Endpoint : providerFree[c][p] = ProviderLimit
    BY DEF OutboundInit
  <1>5. GlobalBalanced /\ ProviderBalanced
    <2>1. IsFiniteSet({}) /\ Cardinality({}) = 0
      BY FS_EmptySet
    <2>2. GlobalLimit + 0 = GlobalLimit /\ ProviderLimit + 0 = ProviderLimit
      BY OutboundAssumption
    <2>3. GlobalBalanced
      BY <1>2, <1>3, <2>1, <2>2, Zenon DEF GlobalBalanced
    <2>4. ProviderBalanced
      BY <1>2, <1>4, <2>1, <2>2, Zenon DEF ProviderBalanced
    <2> QED BY <2>3, <2>4
  <1>6. QED
    BY <1>1, <1>3, <1>5 DEF OutboundInv, CallOK

LEMMA EndKeepsOutbound ==
    ASSUME OutboundInv, NEW r \in Call, NEW outcome \in Outcomes, End(r, outcome),
           calls[r].at \in Underway
    PROVE  OutboundInv'
  <1>1. calls[r] \in LiveCall
    BY DEF OutboundInv, CallOK, NoCall, Underway, Outcomes
  <1>2. OutboundTypes'
    BY <1>1 DEF End, OutboundInv, OutboundTypes, LiveCall
  <1>3. \A q \in Call : CallOK(calls'[q])
    <2>1. calls'[r] \in [at : Outcomes] /\ Beside(r)
      BY DEF End, Beside, OutboundInv, OutboundTypes
    <2>2. QED
      BY <2>1 DEF Beside, CallOK, OutboundInv
  <1>4. QED
    BY <1>1, <1>2, <1>3, EndBalanced DEF OutboundInv

\* A step of a live request that holds what it held and stays live.
LEMMA AdvanceKeepsOutbound ==
    ASSUME OutboundInv, NEW r \in Call, NEW call, calls' = [calls EXCEPT ![r] = call],
           calls[r].at \in Underway, CallOK(call),
           call.at \in {"provider", "resolve", "connect", "tls", "answer", "body"}
               <=> calls[r].at \in {"provider", "resolve", "connect", "tls", "answer", "body"},
           call.at \in {"resolve", "connect", "tls", "answer", "body"}
               <=> calls[r].at \in {"resolve", "connect", "tls", "answer", "body"},
           call.client = calls[r].client, call.endpoint = calls[r].endpoint,
           UNCHANGED <<globalFree, providerFree>>
    PROVE  OutboundInv'
  <1>1. calls'[r] = call /\ Beside(r) /\ OutboundTypes'
    BY DEF OutboundInv, OutboundTypes, Beside
  <1>2. \A q \in Call : CallOK(calls'[q])
    BY <1>1 DEF OutboundInv, Beside
  <1>3. /\ HoldsGlobal(r)' <=> HoldsGlobal(r)
        /\ Working(r)' <=> Working(r)
    BY <1>1 DEF HoldsGlobal, Working
  <1>4. GlobalBalanced' /\ ProviderBalanced'
    BY <1>1, <1>3, PermitsKept DEF OutboundInv
  <1>5. QED
    BY <1>1, <1>2, <1>4 DEF OutboundInv

\* The disjunct of CallOK that a live request satisfies.
LiveOK(call) ==
    /\ call \in LiveCall
    /\ Allowed(call.html, call.operation)
    /\ call.ip # "private"
    /\ call.size <= ResponseLimit
    /\ \/ call.sent = NothingSent
       \/ /\ call.at \in {"answer", "body"}
          /\ call.sent.verified /\ call.sent.peer = call.ip /\ call.sent.cookie = call.html

LEMMA LiveFacts ==
    ASSUME OutboundInv, NEW r \in Call, calls[r].at \in Underway
    PROVE  /\ calls[r] \in LiveCall
           /\ CallOK(calls[r]) /\ LiveOK(calls[r])
           /\ calls[r].at \notin {"answer", "body"} => calls[r].sent = NothingSent
  <1>1. CallOK(calls[r])
    BY DEF OutboundInv
  <1>2. calls[r] # NoCall /\ calls[r] \notin [at : Outcomes]
    BY DEF NoCall, Outcomes, Underway
  <1>3. LiveOK(calls[r])
    BY <1>1, <1>2, Zenon DEF CallOK, LiveOK
  <1>4. QED
    BY <1>1, <1>3, Zenon DEF LiveOK

LEMMA NextOutboundInv == OutboundInv /\ [OutboundNext]_outboundVars => OutboundInv'
  <1> SUFFICES ASSUME OutboundInv, [OutboundNext]_outboundVars PROVE OutboundInv'
    OBVIOUS
  <1>1. CASE UNCHANGED outboundVars
    BY <1>1 DEF outboundVars, OutboundInv, OutboundTypes, GlobalBalanced, ProviderBalanced,
                Holders, Users, HoldsGlobal, Working
  <1>2. ASSUME NEW r \in Call, NEW c \in Client, NEW p \in Endpoint, NEW html \in BOOLEAN,
               NEW operation \in Operation, NEW wellFormed \in BOOLEAN,
               Fetch(r, c, p, html, operation, wellFormed)
        PROVE  OutboundInv'
    <2>1. ~HoldsGlobal(r) /\ ~Working(r)
      BY <1>2 DEF Fetch, Started, HoldsGlobal, Working
    <2>2. Beside(r) /\ OutboundTypes' /\ UNCHANGED <<globalFree, providerFree>>
      BY <1>2 DEF Fetch, Beside, OutboundInv, OutboundTypes
    <2>3. CallOK(calls'[r]) /\ calls'[r].at \in {"global", "refused"}
      <3>1. CASE Allowed(html, operation) /\ wellFormed
        <4> PICK call : call = [at |-> "global", client |-> c, endpoint |-> p, html |-> html,
                 operation |-> operation, late |-> FALSE, ip |-> "none", sent |-> NothingSent, size |-> 0]
          OBVIOUS
        <4>1. call \in LiveCall
          BY DEF LiveCall, Underway, NothingSent
        <4>2. /\ call.at = "global" /\ call.html = html /\ call.operation = operation
              /\ call.ip = "none" /\ call.sent = NothingSent /\ call.size = 0
          OBVIOUS
        <4>3. CallOK(call)
          BY <3>1, <4>1, <4>2, OutboundAssumption DEF CallOK
        <4>4. calls'[r] = call
          BY <1>2, <3>1 DEF Fetch, OutboundInv, OutboundTypes
        <4>5. QED
          BY <4>2, <4>3, <4>4
      <3>2. CASE ~(Allowed(html, operation) /\ wellFormed)
        BY <1>2, <3>2 DEF Fetch, CallOK, Outcomes, OutboundInv, OutboundTypes
      <3>3. QED
        BY <3>1, <3>2
    <2>4. ~HoldsGlobal(r)' /\ ~Working(r)'
      BY <2>3 DEF HoldsGlobal, Working
    <2>5. GlobalBalanced' /\ ProviderBalanced'
      BY <2>1, <2>2, <2>4, PermitsKept DEF OutboundInv
    <2>6. \A q \in Call : CallOK(calls'[q])
      BY <2>2, <2>3 DEF Beside, OutboundInv
    <2>7. QED
      BY <2>2, <2>5, <2>6 DEF OutboundInv
  <1>3. ASSUME NEW r \in Call, TakeGlobal(r) PROVE OutboundInv'
    <2>1. calls[r] \in LiveCall /\ CallOK(calls[r]) /\ calls[r].sent = NothingSent
      BY <1>3, LiveFacts DEF TakeGlobal, Underway
    <2>2. OutboundTypes' /\ Beside(r)
      BY <1>3, <2>1 DEF TakeGlobal, OutboundInv, OutboundTypes, Beside, LiveCall
    <2>3. CallOK(calls'[r])
      BY <1>3, <2>1 DEF TakeGlobal, CallOK, LiveCall, Underway, NoCall, Outcomes, OutboundInv, OutboundTypes
    <2>4. \A q \in Call : CallOK(calls'[q])
      BY <2>2, <2>3 DEF Beside, OutboundInv
    <2>5. QED
      BY <1>3, <2>2, <2>4, TakeGlobalBalanced DEF OutboundInv
  <1>4. ASSUME NEW r \in Call, TakeProvider(r) PROVE OutboundInv'
    <2>1. calls[r] \in LiveCall /\ CallOK(calls[r]) /\ calls[r].sent = NothingSent
      BY <1>4, LiveFacts DEF TakeProvider, Underway
    <2>2. OutboundTypes' /\ Beside(r)
      BY <1>4, <2>1 DEF TakeProvider, OutboundInv, OutboundTypes, Beside, LiveCall
    <2>3. CallOK(calls'[r])
      BY <1>4, <2>1 DEF TakeProvider, CallOK, LiveCall, Underway, NoCall, Outcomes, OutboundInv, OutboundTypes
    <2>4. \A q \in Call : CallOK(calls'[q])
      BY <2>2, <2>3 DEF Beside, OutboundInv
    <2>5. QED
      BY <1>4, <2>2, <2>4, TakeProviderBalanced DEF OutboundInv
  <1>5. ASSUME NEW r \in Call,
               NEW addresses \in {<<>>} \cup {<<a>> : a \in Address} \cup (Address \X Address),
               Resolve(r, addresses)
        PROVE  OutboundInv'
    <2>1. calls[r].at = "resolve" /\ calls[r].at \in Underway
      BY <1>5 DEF Resolve, Underway
    <2>2. CASE End(r, "refused") \/ End(r, "timeout")
      BY <2>1, <2>2, EndKeepsOutbound DEF Outcomes
    <2>3. CASE /\ addresses # <<>> /\ Public(addresses)
               /\ calls' = [calls EXCEPT ![r].at = "connect", ![r].ip = addresses[1]]
               /\ UNCHANGED <<globalFree, providerFree>>
      <3> PICK call, ip : /\ ip = addresses[1]
                          /\ call = [calls[r] EXCEPT !.at = "connect", !.ip = ip]
        OBVIOUS
      <3>1. ip \in Address /\ ip # "private"
        BY <2>3 DEF Public
      <3>2. calls[r] \in LiveCall /\ CallOK(calls[r]) /\ calls[r].sent = NothingSent
        BY <2>1, LiveFacts
      <3>3. /\ call \in LiveCall /\ call.at = "connect" /\ call.ip = ip
            /\ call.sent = NothingSent /\ call.html = calls[r].html /\ call.size = calls[r].size
            /\ call.operation = calls[r].operation
            /\ call.client = calls[r].client /\ call.endpoint = calls[r].endpoint
        BY <3>1, <3>2 DEF LiveCall, Underway
      <3>4. CallOK(call)
        BY <2>1, <3>1, <3>2, <3>3 DEF CallOK, NoCall, Outcomes
      <3>5. calls' = [calls EXCEPT ![r] = call]
        BY <2>3 DEF OutboundInv, OutboundTypes
      <3>6. QED
        BY <2>1, <2>3, <3>3, <3>4, <3>5, AdvanceKeepsOutbound
    <2>4. QED
      BY <1>5, <2>2, <2>3 DEF Resolve
  <1>6. ASSUME NEW r \in Call, NEW step \in {"tls", "body"}, Proceed(r, step),
               calls[r].at = IF step = "tls" THEN "connect" ELSE "answer"
        PROVE  OutboundInv'
    <2> PICK call : call = [calls[r] EXCEPT !.at = step]
      OBVIOUS
    <2>1. calls[r].at \in Underway /\ (step = "tls" => calls[r].at = "connect")
      BY <1>6 DEF Underway
    <2>2. calls[r] \in LiveCall /\ CallOK(calls[r])
          /\ (step = "tls" => calls[r].sent = NothingSent)
      BY <2>1, LiveFacts
    <2>3. /\ call \in LiveCall /\ call.at = step /\ call.ip = calls[r].ip
          /\ call.sent = calls[r].sent /\ call.html = calls[r].html /\ call.size = calls[r].size
          /\ call.operation = calls[r].operation
          /\ call.client = calls[r].client /\ call.endpoint = calls[r].endpoint
      BY <2>2 DEF LiveCall, Underway
    <2>4. CallOK(call)
      BY <2>1, <2>2, <2>3 DEF CallOK, NoCall, Outcomes, Underway
    <2>5. calls' = [calls EXCEPT ![r] = call] /\ UNCHANGED <<globalFree, providerFree>>
      BY <1>6 DEF Proceed, OutboundInv, OutboundTypes
    <2>6. QED
      BY <1>6, <2>1, <2>3, <2>4, <2>5, AdvanceKeepsOutbound
  <1>7. ASSUME NEW r \in Call, NEW peer \in Address, Connect(r, peer) PROVE OutboundInv'
    BY <1>6, <1>7, EndKeepsOutbound DEF Connect, Underway, Outcomes
  <1>8. ASSUME NEW r \in Call, NEW peer \in Address, NEW verified \in BOOLEAN,
               StartTls(r, peer, verified)
        PROVE  OutboundInv'
    <2>1. calls[r].at = "tls" /\ calls[r].at \in Underway
      BY <1>8 DEF StartTls, Underway
    <2>2. CASE End(r, "refused")
      BY <2>1, <2>2, EndKeepsOutbound DEF Outcomes
    <2>3. CASE /\ verified /\ peer = calls[r].ip
               /\ calls' = [calls EXCEPT ![r].at = "answer",
                      ![r].sent = [peer |-> peer, cookie |-> calls[r].html, verified |-> verified]]
               /\ UNCHANGED <<globalFree, providerFree>>
      <3> PICK call, sent :
              /\ sent = [peer |-> peer, cookie |-> calls[r].html, verified |-> verified]
              /\ call = [calls[r] EXCEPT !.at = "answer", !.sent = sent]
        OBVIOUS
      <3>1. calls[r] \in LiveCall /\ CallOK(calls[r])
        BY <2>1, LiveFacts
      <3>2. /\ sent \in [peer : Address \cup {"none"}, cookie : BOOLEAN, verified : BOOLEAN]
            /\ sent.verified /\ sent.peer = calls[r].ip /\ sent.cookie = calls[r].html
        BY <2>3, <3>1 DEF LiveCall
      <3>3. /\ call \in LiveCall /\ call.at = "answer" /\ call.ip = calls[r].ip
            /\ call.sent = sent /\ call.html = calls[r].html /\ call.size = calls[r].size
            /\ call.operation = calls[r].operation
            /\ call.client = calls[r].client /\ call.endpoint = calls[r].endpoint
        BY <3>1, <3>2 DEF LiveCall, Underway
      <3>4. CallOK(call)
        <4>1. LiveOK(calls[r])
          BY <2>1, LiveFacts
        <4>2. QED
          BY <3>2, <3>3, <4>1, Zenon DEF CallOK, LiveOK
      <3>5. calls' = [calls EXCEPT ![r] = call]
        BY <2>3 DEF OutboundInv, OutboundTypes
      <3>6. QED
        BY <2>1, <2>3, <3>3, <3>4, <3>5, AdvanceKeepsOutbound
    <2>4. QED
      BY <1>8, <2>2, <2>3 DEF StartTls
  <1>9. ASSUME NEW r \in Call, NEW accepted \in BOOLEAN, ReadHead(r, accepted) PROVE OutboundInv'
    BY <1>6, <1>9, EndKeepsOutbound DEF ReadHead, Underway, Outcomes
  <1>10. ASSUME NEW r \in Call, NEW chunk \in 1..2, ReadChunk(r, chunk) PROVE OutboundInv'
    <2>1. calls[r].at = "body" /\ calls[r].at \in Underway
      BY <1>10 DEF ReadChunk, Underway
    <2>2. CASE End(r, "refused")
      BY <2>1, <2>2, EndKeepsOutbound DEF Outcomes
    <2>3. CASE /\ ~(calls[r].size + chunk > ResponseLimit)
               /\ calls' = [calls EXCEPT ![r].size = @ + chunk]
               /\ UNCHANGED <<globalFree, providerFree>>
      <3> PICK call : call = [calls[r] EXCEPT !.size = calls[r].size + chunk]
        OBVIOUS
      <3>1. calls[r] \in LiveCall /\ CallOK(calls[r]) /\ calls[r].size + chunk \in Nat
        BY <2>1, LiveFacts DEF LiveCall
      <3>2. /\ call \in LiveCall /\ call.at = "body" /\ call.ip = calls[r].ip
            /\ call.sent = calls[r].sent /\ call.html = calls[r].html
            /\ call.size = calls[r].size + chunk /\ call.operation = calls[r].operation
            /\ call.client = calls[r].client /\ call.endpoint = calls[r].endpoint
        BY <2>1, <3>1 DEF LiveCall
      <3>3. call.size <= ResponseLimit
        BY <2>3, <3>1, <3>2, OutboundAssumption DEF LiveCall
      <3>4. CallOK(call)
        BY <2>1, <3>1, <3>2, <3>3 DEF CallOK, NoCall, Outcomes
      <3>5. calls' = [calls EXCEPT ![r] = call]
        BY <2>3 DEF OutboundInv, OutboundTypes
      <3>6. QED
        BY <2>1, <2>3, <3>2, <3>4, <3>5, AdvanceKeepsOutbound
    <2>4. QED
      BY <1>10, <2>2, <2>3 DEF ReadChunk
  <1>11. ASSUME NEW r \in Call, NEW parses \in BOOLEAN, Return(r, parses) PROVE OutboundInv'
    BY <1>11, EndKeepsOutbound DEF Return, Underway, Outcomes
  <1>12. ASSUME NEW r \in Call, Deadline(r) PROVE OutboundInv'
    <2>1. calls[r].at \in Underway
      BY <1>12 DEF Deadline, HoldsGlobal, Working, Underway
    <2>2. CASE End(r, "timeout")
      BY <2>1, <2>2, EndKeepsOutbound DEF Outcomes
    <2>3. CASE /\ calls' = [calls EXCEPT ![r].late = TRUE]
               /\ UNCHANGED <<globalFree, providerFree>>
      <3> PICK call : call = [calls[r] EXCEPT !.late = TRUE]
        OBVIOUS
      <3>1. calls[r] \in LiveCall /\ CallOK(calls[r])
        BY <2>1, LiveFacts
      <3>2. /\ call \in LiveCall /\ call.at = calls[r].at /\ call.ip = calls[r].ip
            /\ call.sent = calls[r].sent /\ call.html = calls[r].html
            /\ call.size = calls[r].size /\ call.operation = calls[r].operation
            /\ call.client = calls[r].client /\ call.endpoint = calls[r].endpoint
        BY <3>1 DEF LiveCall
      <3>3. CallOK(call)
        <4>1. LiveOK(calls[r])
          BY <2>1, LiveFacts
        <4>2. QED
          BY <3>2, <4>1, Zenon DEF CallOK, LiveOK
      <3>4. calls' = [calls EXCEPT ![r] = call]
        BY <2>3 DEF OutboundInv, OutboundTypes
      <3>5. QED
        BY <2>1, <2>3, <3>2, <3>3, <3>4, AdvanceKeepsOutbound
    <2>4. QED
      BY <1>12, <2>2, <2>3 DEF Deadline
  <1>13. ASSUME NEW r \in Call, Break(r) PROVE OutboundInv'
    BY <1>13, EndKeepsOutbound DEF Break, HoldsGlobal, Working, Underway, Outcomes
  <1>14. QED
    BY <1>1, <1>2, <1>3, <1>4, <1>5, <1>7, <1>8, <1>9, <1>10, <1>11, <1>12, <1>13 DEF OutboundNext

\* However a request ends (refused, timed out, cancelled in the queue of a semaphore
\* or within an answer), the client gets back exactly what it held, and nothing was
\* sent to a peer other than the approved one (OutboundHttpClient._send, its two
\* async with blocks and PinnedNetworkBackend), for any number of requests.
THEOREM RequestsAreSafe == OutboundSpec => []OutboundSafe
  <1>1. OutboundSpec => []OutboundInv
    BY InitOutboundInv, NextOutboundInv, PTL DEF OutboundSpec
  <1>2. OutboundInv => PermitsBalanced
    BY DEF OutboundInv, GlobalBalanced, ProviderBalanced, Holders, Users, PermitsBalanced
  <1>3. OutboundInv => OnlyApprovedPeer
    <2> SUFFICES ASSUME OutboundInv, NEW r \in Call, Working(r), calls[r].sent # NothingSent
                 PROVE  /\ calls[r].sent.verified
                        /\ calls[r].sent.peer = calls[r].ip /\ calls[r].ip # "private"
                        /\ calls[r].sent.cookie => calls[r].operation = "html_session"
      BY DEF OnlyApprovedPeer
    <2>1. calls[r].at \in Underway
      BY DEF Working, Underway
    <2>2. calls[r] \in LiveCall /\ CallOK(calls[r])
      BY <2>1, LiveFacts
    <2>3. QED
      BY <2>1, <2>2 DEF CallOK, NoCall, Outcomes, Underway, Allowed, LiveCall
  <1>4. OutboundInv => OutboundSafe
    BY <1>2, <1>3 DEF OutboundSafe
  <1>5. QED
    BY <1>1, <1>4, PTL

----------------------------------------------------------------------------
(***************************************************************************)
(* The rows of these services, and the services side by side.              *)
(***************************************************************************)

\* A check adds one failure to a proxy, at most.
FailsBounded ==
    /\ checksStarted \in 0..MaxChecks
    /\ \A p \in Proxy : pool.proxies[p].health.fails <= checksStarted
    /\ \A c \in Checker : checks[c].at = "probing" =>
          \A p \in Proxy : /\ checks[c].copy.proxies[p].health.fails <= checksStarted
                           /\ p \in checks[c].todo => checks[c].copy.proxies[p].health.fails < checksStarted

GoodHealth(health) == health.ok => health.fails = 0 /\ ~health.cooling

GoodRests ==
    /\ \A p \in Proxy : GoodHealth(pool.proxies[p].health)
    /\ \A c \in Checker, p \in Proxy : GoodHealth(checks[c].copy.proxies[p].health)

PlacesOK == poolLock \in Checker \cup {NoChoice} /\ choice \in Proxy \cup {NoChoice}

RowsInv == EgressInv /\ FailsBounded /\ GoodRests /\ PlacesOK

LEMMA NeverProbedIsGood ==
    /\ NeverProbed.fails = 0 /\ GoodHealth(NeverProbed)
    /\ \A p \in Proxy : NewPool.proxies[p].health = NeverProbed
    /\ IdleCheck.at = "idle" /\ IdleCheck.copy = NewPool
  BY DEF NeverProbed, GoodHealth, NewPool, IdleCheck

LEMMA InitRowsInv == EgressInit => RowsInv
  <1> SUFFICES ASSUME EgressInit PROVE RowsInv
    OBVIOUS
  <1>1. EgressInv
    BY InitEgressInv
  <1>2. FailsBounded
    BY NeverProbedIsGood, EgressAssumption DEF EgressInit, FailsBounded
  <1>3. GoodRests
    BY NeverProbedIsGood DEF EgressInit, GoodRests
  <1>4. PlacesOK
    BY DEF EgressInit, PlacesOK
  <1> QED BY <1>1, <1>2, <1>3, <1>4 DEF RowsInv

LEMMA ChosenIsProxy == \A f : Chosen(f) \subseteq Proxy \cup {NoChoice}
  BY DEF Chosen, Eligible

LEMMA HealthGives ==
    ASSUME NEW f \in PoolFile, NEW p \in Proxy
    PROVE  f.proxies[p].health \in Health /\ f.proxies[p].health.fails \in Nat
  BY DEF PoolFile, ProxyRows, Health

\* A proxy of which another health is known; the others stay.
LEMMA WithHealthGives ==
    ASSUME NEW f \in PoolFile, NEW p \in Proxy, NEW health \in Health
    PROVE  \A q \in Proxy : WithHealth(f, p, health).proxies[q].health =
                               IF q = p THEN health ELSE f.proxies[q].health
  BY DEF WithHealth, PoolFile, ProxyRows

LEMMA LoadRows ==
    ASSUME RowsInv, NEW c \in Checker, LoadPool(c)
    PROVE  FailsBounded' /\ GoodRests' /\ PlacesOK'
  <1>1. /\ checksStarted' = checksStarted + 1 /\ checksStarted \in 0..MaxChecks /\ checksStarted < MaxChecks
        /\ UNCHANGED pool /\ pool \in PoolFile /\ checks \in [Checker -> CheckState]
        /\ checks'[c].at = "probing" /\ checks'[c].copy = pool
        /\ \A d \in Checker : d # c => checks'[d] = checks[d]
    BY DEF LoadPool, RowsInv, EgressInv, EgressTypes, FailsBounded
  <1>2. \A p \in Proxy : pool.proxies[p].health.fails \in Nat
    BY <1>1, HealthGives
  <1>3. \A d \in Checker, p \in Proxy : checks[d].copy.proxies[p].health.fails \in Nat
    BY <1>1, HealthGives DEF CheckState
  <1>4. FailsBounded'
    BY <1>1, <1>2, <1>3, EgressAssumption DEF RowsInv, FailsBounded
  <1>5. GoodRests' /\ PlacesOK'
    BY <1>1 DEF RowsInv, GoodRests, PlacesOK, LoadPool
  <1> QED BY <1>4, <1>5

LEMMA ProbeRows ==
    ASSUME RowsInv, NEW c \in Checker, NEW p \in Proxy, NEW found \in Found, ProbeOne(c, p, found)
    PROVE  FailsBounded' /\ GoodRests' /\ PlacesOK'
  <1>0. PICK pooled, known, health :
          /\ pooled = checks[c].copy /\ known = pooled.proxies[p].health
          /\ health = Probed(pooled, known, found)
    OBVIOUS
  <1>1. /\ checks \in [Checker -> CheckState] /\ p \in checks[c].todo
        /\ checks' = [checks EXCEPT ![c] = [at |-> "probing", copy |-> WithHealth(pooled, p, health),
                                            todo |-> checks[c].todo \ {p}]]
        /\ UNCHANGED <<pool, poolLock, checksStarted>> /\ choice' = NoChoice
    BY <1>0 DEF ProbeOne, RowsInv, EgressInv, EgressTypes
  <1>2. pooled \in PoolFile /\ known \in Health /\ known.fails \in Nat
    BY <1>0, <1>1, HealthGives DEF CheckState
  <1>3. health \in Health /\ health.fails = IF health.ok THEN 0 ELSE known.fails + 1
    BY <1>0, <1>2, ProbeCounts
  <1>4. GoodHealth(health)
    BY <1>0, <1>3 DEF GoodHealth, Probed
  <1>5. checks[c].at = "probing" /\ checksStarted \in Nat
    BY <1>1, EgressAssumption DEF RowsInv, EgressInv, OneCheck, CheckState, FailsBounded
  <1>6. known.fails < checksStarted
    BY <1>0, <1>1, <1>5 DEF RowsInv, FailsBounded
  <1>7. health.fails <= checksStarted
    BY <1>2, <1>3, <1>5, <1>6
  <1>8. /\ checks'[c].at = "probing" /\ checks'[c].todo = checks[c].todo \ {p}
        /\ \A q \in Proxy : checks'[c].copy.proxies[q].health = IF q = p THEN health ELSE pooled.proxies[q].health
        /\ \A d \in Checker : d # c => checks'[d] = checks[d]
    <2> PICK copy : copy = WithHealth(pooled, p, health)
      OBVIOUS
    <2>1. \A q \in Proxy : copy.proxies[q].health = IF q = p THEN health ELSE pooled.proxies[q].health
      <3>1. OnlyHealth(pooled, copy, p, health)
        BY <1>2, <1>3, WithHealthIs, Zenon
      <3>2. /\ copy.proxies[p].health = health
            /\ \A q \in Proxy : q # p => copy.proxies[q] = pooled.proxies[q]
        BY <3>1, Zenon DEF OnlyHealth
      <3>3. QED
        BY <3>2
    <2>2. /\ checks'[c] = [at |-> "probing", copy |-> copy, todo |-> checks[c].todo \ {p}]
          /\ \A d \in Checker : d # c => checks'[d] = checks[d]
      BY <1>1
    <2>3. QED
      BY <2>1, <2>2
  <1>9. FailsBounded'
    BY <1>0, <1>1, <1>5, <1>7, <1>8 DEF RowsInv, FailsBounded
  <1>10. GoodRests' /\ PlacesOK'
    BY <1>0, <1>1, <1>4, <1>8 DEF RowsInv, GoodRests, PlacesOK
  <1> QED BY <1>9, <1>10

LEMMA EndRows ==
    ASSUME RowsInv, NEW c \in Checker, SavePool(c) \/ AbandonCheck(c)
    PROVE  FailsBounded' /\ GoodRests' /\ PlacesOK'
  <1>1. /\ checks[c].at = "probing" /\ UNCHANGED checksStarted /\ checks' = [checks EXCEPT ![c] = IdleCheck]
        /\ poolLock' = NoChoice /\ (pool' = pool \/ pool' = checks[c].copy)
        /\ checks \in [Checker -> CheckState]
    BY DEF SavePool, AbandonCheck, RowsInv, EgressInv, EgressTypes
  <1>2. choice' \in Proxy \cup {NoChoice}
    BY ChosenIsProxy DEF SavePool, AbandonCheck
  <1>3. FailsBounded'
    BY <1>1, NeverProbedIsGood DEF RowsInv, FailsBounded
  <1>4. GoodRests'
    BY <1>1, NeverProbedIsGood DEF RowsInv, GoodRests
  <1> QED BY <1>1, <1>2, <1>3, <1>4 DEF PlacesOK

LEMMA EditRows ==
    ASSUME RowsInv, NEW p \in Proxy, EditPool(p)
    PROVE  FailsBounded' /\ GoodRests' /\ PlacesOK'
  <1>1. UNCHANGED <<poolLock, checks, checksStarted>> /\ choice' = NoChoice /\ pool \in PoolFile
    BY DEF EditPool, RowsInv, EgressInv, EgressTypes
  <1>2. \A q \in Proxy : pool'.proxies[q].health \in {pool.proxies[q].health, NeverProbed}
    <2>1. CASE pool' = WithHealth(pool, p, NeverProbed)
      BY <1>1, <2>1, WithHealthGives, NewPoolType
    <2>2. CASE pool' = [pool EXCEPT !.proxies[p].enabled = ~@] \/ pool' = [pool EXCEPT !.denies = ~@]
      BY <1>1, <2>2 DEF PoolFile, ProxyRows
    <2> QED BY <2>1, <2>2 DEF EditPool
  <1>3. FailsBounded'
    BY <1>1, <1>2, NeverProbedIsGood, EgressAssumption DEF RowsInv, FailsBounded
  <1>4. GoodRests' /\ PlacesOK'
    BY <1>1, <1>2, NeverProbedIsGood DEF RowsInv, GoodRests, PlacesOK
  <1> QED BY <1>3, <1>4

\* Rested(health): the same but for the cooldown.
Rested(health) == [health EXCEPT !.cooling = FALSE]

LEMMA RestedIsGood ==
    ASSUME NEW health \in Health
    PROVE  /\ Rested(health) \in Health /\ Rested(health).fails = health.fails
           /\ GoodHealth(health) => GoodHealth(Rested(health))
  BY DEF Rested, Health, GoodHealth

LEMMA CooldownRows ==
    ASSUME RowsInv, NEW p \in Proxy, CooldownEnds(p)
    PROVE  FailsBounded' /\ GoodRests' /\ PlacesOK'
  <1>1. /\ UNCHANGED <<poolLock, checksStarted>> /\ choice' = NoChoice /\ pool \in PoolFile
        /\ checks \in [Checker -> CheckState]
        /\ pool' = WithHealth(pool, p, Rested(pool.proxies[p].health))
    BY DEF CooldownEnds, Rested, RowsInv, EgressInv, EgressTypes
  <1>2. \A f \in PoolFile : f.proxies[p].health \in Health
    BY HealthGives
  <1>3. \A f \in PoolFile, q \in Proxy :
            WithHealth(f, p, Rested(f.proxies[p].health)).proxies[q].health
                \in {f.proxies[q].health, Rested(f.proxies[q].health)}
    BY <1>2, WithHealthGives, RestedIsGood
  <1>4. \A q \in Proxy : pool'.proxies[q].health \in {pool.proxies[q].health, Rested(pool.proxies[q].health)}
    BY <1>1, <1>3
  <1>5. ASSUME NEW c \in Checker
        PROVE  /\ checks'[c].at = checks[c].at /\ checks'[c].todo = checks[c].todo
               /\ \A q \in Proxy : checks'[c].copy.proxies[q].health
                      \in {checks[c].copy.proxies[q].health, Rested(checks[c].copy.proxies[q].health)}
    <2>1. checks[c].copy \in PoolFile
      BY <1>1 DEF CheckState
    <2>2. checks'[c] = checks[c] \/
            checks'[c] = [at |-> checks[c].at, todo |-> checks[c].todo,
                          copy |-> WithHealth(checks[c].copy, p, Rested(checks[c].copy.proxies[p].health))]
      BY DEF CooldownEnds, Rested
    <2>a. PICK old, rest, copy : /\ old = checks[c].copy /\ rest = Rested(old.proxies[p].health)
                                 /\ copy = WithHealth(old, p, rest)
      OBVIOUS
    <2>3. rest \in Health
      BY <1>2, <2>1, <2>a, RestedIsGood
    <2>4. OnlyHealth(old, copy, p, rest)
      BY <2>1, <2>3, <2>a, WithHealthIs, Zenon
    <2>5. \A q \in Proxy : copy.proxies[q].health \in {old.proxies[q].health, Rested(old.proxies[q].health)}
      <3>1. copy.proxies[p].health = Rested(old.proxies[p].health)
        BY <2>4, <2>a, Zenon DEF OnlyHealth
      <3>2. \A q \in Proxy : q # p => copy.proxies[q] = old.proxies[q]
        BY <2>4, Zenon DEF OnlyHealth
      <3>3. QED
        BY <3>1, <3>2
    <2>6. CASE checks'[c] = checks[c]
      BY <2>6
    <2>7. CASE checks'[c] = [at |-> checks[c].at, todo |-> checks[c].todo, copy |-> copy]
      <3>1. checks'[c].copy = copy /\ checks'[c].at = checks[c].at /\ checks'[c].todo = checks[c].todo
        BY <2>7
      <3>2. QED
        BY <2>5, <2>a, <3>1, Zenon
    <2> QED BY <2>2, <2>6, <2>7, <2>a
  <1>6. \A q \in Proxy : pool.proxies[q].health \in Health
    BY <1>1, HealthGives
  <1>7. \A c \in Checker, q \in Proxy : checks[c].copy.proxies[q].health \in Health
    BY <1>1, HealthGives DEF CheckState
  <1>8. \A q \in Proxy : pool'.proxies[q].health.fails = pool.proxies[q].health.fails
    BY <1>4, <1>6, RestedIsGood
  <1>9. \A c \in Checker, q \in Proxy :
            checks'[c].copy.proxies[q].health.fails = checks[c].copy.proxies[q].health.fails
    BY <1>5, <1>7, RestedIsGood
  <1>10. FailsBounded'
    BY <1>1, <1>5, <1>8, <1>9 DEF RowsInv, FailsBounded
  <1>11. GoodRests'
    BY <1>4, <1>5, <1>6, <1>7, RestedIsGood DEF RowsInv, GoodRests
  <1> QED BY <1>1, <1>10, <1>11 DEF RowsInv, PlacesOK

LEMMA NextRowsInv == RowsInv /\ [EgressNext]_egressVars => RowsInv'
  <1> SUFFICES ASSUME RowsInv, [EgressNext]_egressVars PROVE RowsInv'
    OBVIOUS
  <1>1. EgressInv'
    BY NextEgressInv DEF RowsInv
  <1>2. CASE UNCHANGED egressVars
    BY <1>1, <1>2 DEF egressVars, RowsInv, FailsBounded, GoodRests, PlacesOK
  <1>3. CASE SelectProxy
    BY <1>1, <1>3, ChosenIsProxy DEF SelectProxy, RowsInv, FailsBounded, GoodRests, PlacesOK
  <1> QED BY <1>1, <1>2, <1>3, LoadRows, ProbeRows, EndRows, EditRows, CooldownRows, Zenon
          DEF EgressNext, RowsInv

\* A proxy the file calls good has no failures and does not rest, and no proxy has
\* more failures than there were checks.
THEOREM PoolTyped == EgressSpec => []EgressTypeOK
  <1>1. RowsInv => EgressTypeOK
    <2> SUFFICES ASSUME RowsInv PROVE EgressTypeOK
      OBVIOUS
    <2>1. \A p \in Proxy : /\ pool.proxies[p].enabled \in BOOLEAN
                           /\ pool.proxies[p].health.fails \in 0..MaxChecks
                           /\ GoodHealth(pool.proxies[p].health)
      <3>1. pool \in PoolFile /\ checksStarted \in 0..MaxChecks
        BY DEF RowsInv, EgressInv, EgressTypes, FailsBounded
      <3>2. \A p \in Proxy : pool.proxies[p].enabled \in BOOLEAN /\ pool.proxies[p].health.fails \in Nat
        BY <3>1 DEF PoolFile, ProxyRows, Health
      <3> QED BY <3>1, <3>2, EgressAssumption DEF RowsInv, FailsBounded, GoodRests
    <2> QED BY <2>1 DEF EgressTypeOK, GoodHealth, RowsInv, PlacesOK
  <1> QED BY <1>1, InitRowsInv, NextRowsInv, PTL DEF EgressSpec

LEMMA ServicesAreTheirParts ==
    ServiceSpec => SchemaSpec /\ BackupSpec /\ ImportSpec /\ RuntimeSpec /\ EgressSpec /\ OutboundSpec
                     /\ CatalogueSpec
  <1>1. ServiceInit => SchemaInit /\ BackupInit /\ ImportInit /\ RuntimeInit /\ EgressInit /\ OutboundInit
                         /\ CatalogueInit
    BY DEF ServiceInit
  <1>2. [ServiceNext]_ServiceVars => [SchemaNext]_schemaVars
    BY DEF ServiceNext, ServiceVars
  <1>3. [ServiceNext]_ServiceVars => [BackupNext]_backupVars
    BY DEF ServiceNext, ServiceVars
  <1>4. [ServiceNext]_ServiceVars => [ImportNext]_importVars
    BY DEF ServiceNext, ServiceVars
  <1>5. [ServiceNext]_ServiceVars => [RuntimeNext]_runtimeVars
    BY DEF ServiceNext, ServiceVars
  <1>6. [ServiceNext]_ServiceVars => [EgressNext]_egressVars
    BY DEF ServiceNext, ServiceVars
  <1>7. [ServiceNext]_ServiceVars => [OutboundNext]_outboundVars
    BY DEF ServiceNext, ServiceVars
  <1>8. [ServiceNext]_ServiceVars => [CatalogueNext]_catalogueVars
    BY DEF ServiceNext, ServiceVars
  <1> QED BY <1>1, <1>2, <1>3, <1>4, <1>5, <1>6, <1>7, <1>8, PTL
          DEF ServiceSpec, SchemaSpec, BackupSpec, ImportSpec, RuntimeSpec, EgressSpec, OutboundSpec,
              CatalogueSpec

(***************************************************************************)
(* The rows of the services.  The shapes follow from the invariants above, *)
(* save for the place a process starting up has reached (BootPlaces).      *)
(***************************************************************************)
BootPlaces == \A p \in Starter : boot[p].pc \in {"down", "create", "running", "restricted", "refused"}

LEMMA BootStaysPlaced == SchemaInv /\ BootPlaces /\ [SchemaNext]_schemaVars => BootPlaces'
  <1> SUFFICES ASSUME SchemaInv, BootPlaces, [SchemaNext]_schemaVars PROVE BootPlaces'
    OBVIOUS
  <1>1. DOMAIN boot = Starter /\ \A p \in Starter : {"pc", "todo"} \subseteq DOMAIN boot[p]
    BY DEF SchemaInv, BootOK
  <1>2. CASE UNCHANGED boot
    BY <1>2 DEF BootPlaces
  <1>3. ASSUME NEW p \in Starter, NEW pc \in {"down", "running", "restricted", "refused"},
               boot' = [boot EXCEPT ![p] = Boot(pc)]
        PROVE  BootPlaces'
    BY <1>1, <1>3, BootFields DEF BootPlaces
  <1>4. ASSUME NEW p \in Starter, StartProcess(p) PROVE BootPlaces'
    <2>1. Judged \in {"running", "restricted", "refused"}
      BY DEF Judged
    <2>2. CASE MayFill
      BY <1>1, <1>4, <2>2 DEF StartProcess, BootPlaces
    <2> QED BY <1>3, <1>4, <2>1, <2>2 DEF StartProcess
  <1>5. ASSUME NEW p \in Starter, CreateTable(p) PROVE BootPlaces'
    <2>1. ASSUME NEW part \in boot[p].todo, boot' = [boot EXCEPT ![p].todo = @ \ {part}]
          PROVE  BootPlaces'
      BY <1>1, <2>1 DEF BootPlaces
    <2> QED BY <1>3, <1>5, <2>1 DEF CreateTable
  <1>6. ASSUME NEW p \in Starter, RegisterBaseline(p) \/ StopProcess(p) PROVE BootPlaces'
    BY <1>3, <1>6 DEF RegisterBaseline, StopProcess
  <1>7. ASSUME CrashUpgrade PROVE BootPlaces'
    BY <1>7, BootFields DEF CrashUpgrade, BootPlaces
  <1>8. CASE ConfirmUpgrade \/ MigrateStep \/ CommitUpgrade \/ \E part \in Parts : DropPart(part)
    BY <1>2, <1>8 DEF ConfirmUpgrade, MigrateStep, CommitUpgrade, DropPart
  <1>9. CASE UNCHANGED schemaVars
    BY <1>2, <1>9 DEF schemaVars
  <1> QED BY <1>4, <1>5, <1>6, <1>7, <1>8, <1>9, Zenon DEF SchemaNext

LEMMA SchemaTyped == SchemaSpec => []SchemaTypeOK
  <1>1. SchemaInit => BootPlaces
    BY BootFields DEF SchemaInit, BootPlaces
  <1>2. SchemaInv => /\ recorded \subseteq 1..CURRENT_SCHEMA_VERSION
                        \/ recorded = {CURRENT_SCHEMA_VERSION + 1}
    BY DEF SchemaInv, RecordOK, Chain, CURRENT_SCHEMA_VERSION
  <1>3. SchemaInv /\ BootPlaces => SchemaTypeOK
    BY <1>2 DEF SchemaInv, PartsOK, BootPlaces, SchemaTypeOK
  <1> QED BY <1>1, <1>3, BootStaysPlaced, SchemaInvHolds, PTL DEF SchemaSpec

LEMMA ImportTyped == ImportSpec => []ImportTypeOK
  <1>1. ImportInv => ImportTypeOK
    <2> SUFFICES ASSUME ImportInv PROVE ImportTypeOK
      OBVIOUS
    <2>1. ASSUME staged # Empty
          PROVE  \E r \in Request : imp[r].pc = "writing" /\ \A i \in staged.items : i.by = r
      <3>1. PICK r \in Request : imp[r].pc = "writing"
        BY <2>1 DEF ImportInv, OneWriter
      <3>2. \A i \in staged.items : i.by = r
        BY <3>1 DEF ImportInv, OneWriter, StagedOK, ItemOK
      <3> QED BY <3>1, <3>2
    <2>2. /\ \A s, t \in Seen.sources : s.url = t.url => s = t
          /\ \A s \in Seen.sources : [by |-> s.by, row |-> s.row] \in Seen.items
      BY SeenFields DEF ImportInv, UrlsOnce, Item
    <2> QED BY <2>1, <2>2 DEF ImportTypeOK
  <1> QED BY <1>1, InitImportInv, NextImportInv, PTL DEF ImportSpec

LEMMA RuntimeTyped == RuntimeSpec => []RuntimeTypeOK
  <1>1. RuntimeInv => RuntimeTypeOK
    BY DEF RuntimeInv, RowTypes, Row, PlansAreFenced, DisabledIsTold, RuntimeTypeOK
  <1> QED BY <1>1, InitRuntimeInv, NextRuntimeInv, PTL DEF RuntimeSpec

LEMMA OutboundTyped == OutboundSpec => []OutboundTypeOK
  <1>1. OutboundInv => OutboundTypeOK
    <2> SUFFICES ASSUME OutboundInv PROVE OutboundTypeOK
      OBVIOUS
    <2>1. ASSUME NEW r \in Call, Working(r)
          PROVE  calls[r].size \in 0..ResponseLimit /\ calls[r].late \in BOOLEAN
      <3>1. calls[r] \in LiveCall /\ calls[r].size <= ResponseLimit
        BY <2>1 DEF OutboundInv, CallOK, Working, NoCall, Outcomes
      <3> QED BY <3>1, OutboundAssumption DEF LiveCall
    <2>2. \A c \in Client : globalFree[c] \in 0..GlobalLimit
      <3>1. \A c \in Client : Cardinality(Holders(c)) \in Nat
        BY FS_CardinalityType DEF OutboundInv, GlobalBalanced
      <3> QED BY <3>1, OutboundAssumption DEF OutboundInv, OutboundTypes, GlobalBalanced
    <2>3. \A c \in Client, p \in Endpoint : providerFree[c][p] \in 0..ProviderLimit
      <3>1. \A c \in Client, p \in Endpoint : Cardinality(Users(c, p)) \in Nat
        BY FS_CardinalityType DEF OutboundInv, ProviderBalanced
      <3> QED BY <3>1, OutboundAssumption DEF OutboundInv, OutboundTypes, ProviderBalanced
    <2> QED BY <2>1, <2>2, <2>3 DEF OutboundTypeOK
  <1> QED BY <1>1, InitOutboundInv, NextOutboundInv, PTL DEF OutboundSpec

\* Side by side, the rows of every service keep their shape, those of a restored
\* library too.
THEOREM ServicesTyped == ServiceSpec => []ServicesTypeOK
  BY ServicesAreTheirParts, SchemaTyped, LibrariesStaySound, ImportTyped, RuntimeTyped, PoolTyped,
     OutboundTyped, RelationsHaveBoth, PTL DEF ServicesTypeOK

\* Side by side, each service keeps what it promises alone.
THEOREM ServicesKeepTheirPromises ==
    ServiceSpec =>
        /\ []RecordTruthful /\ UpgradesTruthful
        /\ ImportTruthful /\ RestoreTruthful /\ RestoreIsUnion /\ MergeKeepsSeen
        /\ []CatalogCurrent /\ []FailuresCounted /\ []OutboundSafe
  BY ServicesAreTheirParts, RecordsAreTruthful, UpgradesAreTruthful, ImportsAreTruthful,
     RestoresAreTruthful, RestoresAreUnions, MergesLoseNothingSeen, CatalogIsAlwaysCurrent,
     FailuresAreCounted, RequestsAreSafe, PTL
===============================================================================
