--------------------------- MODULE ProviderRuntime ---------------------------
\* The runtime row of one production provider and the session cookie it may
\* need.  Forms carry the version of the page they were made from; a health check
\* looks before and writes after the request; a session import or delete changes
\* the cookie file first and then the row, without looking at its version.
EXTENDS Naturals

CONSTANTS
    Prober,             \* health checks that may run at once
    Importer,           \* session imports and deletes that may run at once
    MaxVersion          \* bound on the row's version

ASSUME ProviderRuntimeAssumption == MaxVersion \in Nat \ {0}

VARIABLES
    needsCookie,        \* the provider's code-owned definition
    prow,               \* its provider_runtime_states row
    envCookie,          \* a cookie given by the environment
    storedCookie,       \* the cookie file CookieCloud imports write
    probes,             \* Prober -> the plan a running check holds
    imports,            \* Importer -> what a running import or delete holds
    changes,            \* history: how often the operator changed the row
    provedAt,           \* history: changes when the probe behind "ready" began
    staleStatus,        \* history: an import wrote back a status it read earlier
    lastSession         \* history: the last session operation, if none overlapped it

runtimeVars == <<needsCookie, prow, envCookie, storedCookie, probes, imports,
                 changes, provedAt, staleStatus, lastSession>>

Profile == {"default", "direct"}      \* proxy_pool is refused as unsupported
RuntimeStatus == {"disabled", "blocked", "ready", "error"}
NoPlan == [version |-> 0]
NoImport == [kind |-> "none"]

----------------------------------------------------------------------------
LocalSession ==
    IF ~needsCookie THEN "not_required"
    ELSE IF envCookie \/ storedCookie THEN "available" ELSE "missing"

\* A lost cookie overrides the row; a found one does not.
EffectiveSession ==
    IF needsCookie /\ LocalSession # "available" THEN LocalSession ELSE prow.session

Blocker ==
    CASE ~prow.enabled -> "provider_disabled"
      [] prow.enabled /\ ~prow.configured -> "configuration_required"
      [] prow.enabled /\ prow.configured /\ needsCookie
            /\ EffectiveSession # "available" -> "session_missing"
      [] OTHER -> "none"

InCatalog == Blocker = "none" /\ prow.status = "ready"

Fenced(version) == prow.version = version

\* An update the row takes only in the version the caller saw.
Mutate(version, values) ==
    /\ Fenced(version)
    /\ version < MaxVersion
    /\ prow' = [field \in DOMAIN prow |->
                    IF field = "version" THEN version + 1
                    ELSE IF field \in DOMAIN values THEN values[field] ELSE prow[field]]
    /\ staleStatus' = FALSE

Off(enabled) == IF enabled THEN "blocked" ELSE "disabled"

----------------------------------------------------------------------------
OperatorStep ==
    /\ changes' = changes + 1
    /\ UNCHANGED <<needsCookie, envCookie, storedCookie, probes, imports, provedAt, lastSession>>

SaveConfiguration(version, profile) ==
    /\ Mutate(version, [profile |-> profile, configured |-> TRUE, status |-> Off(prow.enabled)])
    /\ OperatorStep

SetEnabled(version, enabled) ==
    /\ Mutate(version, [enabled |-> enabled, status |-> Off(enabled)])
    /\ OperatorStep

ClearError(version) ==
    /\ Mutate(version, [status |-> Off(prow.enabled)])
    /\ OperatorStep

\* The status a finished check writes; the prerequisites are looked at again.
CheckedStatus(success) ==
    CASE Blocker = "provider_disabled" -> "disabled"
      [] Blocker \in {"configuration_required", "session_missing"} -> "blocked"
      [] Blocker = "none" -> IF success THEN "ready" ELSE "error"

Complete(version, success, began) ==
    /\ Mutate(version, [status |-> CheckedStatus(success), session |-> EffectiveSession])
    /\ provedAt' = IF CheckedStatus(success) = "ready" THEN began ELSE provedAt

\* run_runtime_health_check up to the request: a blocked provider is recorded at once.
PrepareCheck(p, version) ==
    /\ probes[p] = NoPlan /\ Fenced(version)
    /\ IF Blocker = "none"
       THEN /\ version < MaxVersion
            /\ probes' = [probes EXCEPT ![p] = [version |-> version, began |-> changes]]
            /\ UNCHANGED <<prow, provedAt, staleStatus>>
       ELSE Complete(version, FALSE, changes) /\ UNCHANGED probes
    /\ UNCHANGED <<needsCookie, envCookie, storedCookie, imports, changes, lastSession>>

FinishCheckMutant(p, success) ==
    /\ probes[p] # NoPlan
    /\ Complete(prow.version, success, probes[p].began)
    /\ probes' = [probes EXCEPT ![p] = NoPlan]
    /\ UNCHANGED <<needsCookie, envCookie, storedCookie, imports, changes, lastSession>>

\* The request has been answered, has failed or has timed out.
FinishCheck(p, success) ==
    /\ probes[p] # NoPlan
    /\ IF Fenced(probes[p].version)
       THEN Complete(probes[p].version, success, probes[p].began)
       ELSE UNCHANGED <<prow, provedAt, staleStatus>>
    /\ probes' = [probes EXCEPT ![p] = NoPlan]
    /\ UNCHANGED <<needsCookie, envCookie, storedCookie, imports, changes, lastSession>>

----------------------------------------------------------------------------
\* An import that saves the cookie, one that only tries it, or a delete.
StartSession(i, kind) ==
    /\ imports[i] = NoImport
    /\ storedCookie' = CASE kind = "save" -> TRUE
                         [] kind = "delete" -> FALSE
                         [] kind = "try" -> storedCookie
    /\ imports' = [imports EXCEPT ![i] = [kind |-> kind]]
    /\ lastSession' = IF \A other \in Importer : imports[other] = NoImport
                      THEN "alone" ELSE "overlapped"
    /\ UNCHANGED <<needsCookie, prow, envCookie, probes, changes, provedAt, staleStatus>>

ReadRow(i) ==
    /\ DOMAIN imports[i] = {"kind"} /\ imports[i] # NoImport
    /\ imports' = [imports EXCEPT ![i] =
           [kind |-> @.kind, enabled |-> prow.enabled, status |-> prow.status]]
    /\ UNCHANGED <<needsCookie, prow, envCookie, storedCookie, probes, changes, provedAt,
                   staleStatus, lastSession>>

\* record_session_import: the row's status as it was read, whatever it is now.
RecordSession(i) ==
    LET taken == imports[i]
        available == taken.kind = "save"
        Status(row) == IF row.enabled /\ ~available THEN "blocked" ELSE row.status
    IN /\ "status" \in DOMAIN taken
       /\ prow.version < MaxVersion
       /\ prow' = [prow EXCEPT !.session = IF available THEN "available" ELSE "missing",
                               !.status = Status(taken), !.version = @ + 1]
       /\ staleStatus' = (Status(taken) # Status(prow) \/ (staleStatus /\ Status(prow) = prow.status))
       /\ imports' = [imports EXCEPT ![i] = NoImport]
       /\ lastSession' = IF lastSession = "alone" THEN taken.kind ELSE "overlapped"
       /\ UNCHANGED <<needsCookie, envCookie, storedCookie, probes, changes, provedAt>>

----------------------------------------------------------------------------
\* The process ends, and starts again with or without a cookie in its environment.
RestartRuntime ==
    /\ envCookie' \in BOOLEAN
    /\ probes' = [p \in Prober |-> NoPlan]
    /\ imports' = [i \in Importer |-> NoImport]
    /\ UNCHANGED <<needsCookie, prow, storedCookie, changes, provedAt, staleStatus>>
    /\ lastSession' = IF lastSession = "alone" THEN "overlapped" ELSE lastSession

RuntimeInit ==
    /\ needsCookie \in BOOLEAN /\ envCookie \in BOOLEAN /\ storedCookie = FALSE
    /\ prow = [enabled |-> FALSE, configured |-> FALSE, profile |-> "default",
               status |-> "disabled", session |-> LocalSession, version |-> 1]
    /\ probes = [p \in Prober |-> NoPlan]
    /\ imports = [i \in Importer |-> NoImport]
    /\ changes = 0 /\ provedAt = 0 /\ staleStatus = FALSE /\ lastSession = "none"

RuntimeNext ==
    \/ \E v \in 1..MaxVersion :
         \/ \E profile \in Profile : SaveConfiguration(v, profile)
         \/ \E enabled \in BOOLEAN : SetEnabled(v, enabled)
         \/ ClearError(v)
         \/ \E p \in Prober : PrepareCheck(p, v)
    \/ \E p \in Prober, success \in BOOLEAN : FinishCheck(p, success)
    \/ \E i \in Importer :
         \/ \E kind \in {"save", "try", "delete"} : StartSession(i, kind)
         \/ ReadRow(i)
         \/ RecordSession(i)
    \/ RestartRuntime

RuntimeSpec == RuntimeInit /\ [][RuntimeNext]_runtimeVars

----------------------------------------------------------------------------
\* Type invariant.  A disabled provider is recorded as disabled, unless an import
\* wrote back the status of an enabled one.
RuntimeTypeOK ==
    /\ prow.profile \in Profile /\ prow.status \in RuntimeStatus
    /\ prow.session \in {"not_required", "available", "missing"}
    /\ prow.version \in 1..MaxVersion
    /\ prow.status = "disabled" \/ prow.enabled \/ staleStatus
    /\ \A p \in Prober : probes[p] = NoPlan \/ probes[p].version <= prow.version
    /\ changes <= prow.version

\* A provider the search catalogue offers answered a probe that began after the
\* operator's last change of it: a late answer never revives a provider that was
\* reconfigured, disabled or cleared meanwhile (complete_health_check's fence).
\* The one exception is a session import that wrote back the status it had read.
ReadyWasProbed ==
    InCatalog => provedAt = changes \/ staleStatus

\* Once session imports and deletes have settled, the last of them decides: after
\* a delete or an import that saved nothing, a provider that needs a cookie is not
\* offered even if the environment has one; after a saved import a check is not
\* turned away for want of a session.
LastSessionDecides ==
    (needsCookie /\ \A i \in Importer : imports[i] = NoImport) =>
        /\ lastSession \in {"delete", "try"} => ~InCatalog
        /\ lastSession = "save" => Blocker # "session_missing"

\* What the catalogue offers rests on the newest probe and the newest session,
\* in whatever order their answers came in.
CatalogCurrent == ReadyWasProbed /\ LastSessionDecides
=============================================================================
