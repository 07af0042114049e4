----------------------------- MODULE MCServices -----------------------------
\* The database, import and backup services, the provider services and the
\* catalogue pages, each with its own state: live says which one runs.  The
\* values some of them permute may be the same model values, since no behaviour
\* holds those of two parts.  A part that does not run starts in one state, and a
\* row that cannot be imported has its name for its URL, since nothing reads the name.
EXTENDS SchemaMigrations, BackupRestore, ImportRows, ProviderRuntime, EgressPool,
        OutboundHttp, CatalogueEdits, TLC

CONSTANT Alike      \* interchangeable model values

VARIABLE live

ServiceVars == <<schemaVars, backupVars, importVars, runtimeVars, egressVars, outboundVars,
                 catalogueVars, live>>

ServiceInit ==
    /\ live \in {"schema", "backup", "import", "runtime", "egress", "outbound", "catalogue"}
    /\ live = "schema" \/ (schema = {} /\ recorded = {})
    /\ live = "backup" \/ (form = "tags" /\ lib = NoFile /\ file = NoFile)
    /\ live = "import" \/ given = [r \in Request |-> <<>>]
    /\ live = "runtime" \/ (needsCookie = FALSE /\ envCookie = FALSE)
    /\ live = "catalogue" \/ (tag = TagName /\ tagged = {})
    /\ SchemaInit /\ BackupInit /\ ImportInit /\ RuntimeInit /\ EgressInit /\ OutboundInit
    /\ CatalogueInit
    /\ live = "catalogue" \/ item[1].born = 1
    /\ \A r \in Request : \A n \in DOMAIN given[r] : given[r][n].good \/ given[r][n].url = given[r][n].name

ServiceNext ==
    /\ UNCHANGED live
    /\ \/ live = "schema" /\ SchemaNext
         /\ UNCHANGED <<backupVars, importVars, runtimeVars, egressVars, outboundVars, catalogueVars>>
       \/ live = "backup" /\ BackupNext
         /\ UNCHANGED <<schemaVars, importVars, runtimeVars, egressVars, outboundVars, catalogueVars>>
       \/ live = "import" /\ ImportNext
         /\ UNCHANGED <<schemaVars, backupVars, runtimeVars, egressVars, outboundVars, catalogueVars>>
       \/ live = "runtime" /\ RuntimeNext
         /\ UNCHANGED <<schemaVars, backupVars, importVars, egressVars, outboundVars, catalogueVars>>
       \/ live = "egress" /\ EgressNext
         /\ UNCHANGED <<schemaVars, backupVars, importVars, runtimeVars, outboundVars, catalogueVars>>
       \/ live = "outbound" /\ OutboundNext
         /\ UNCHANGED <<schemaVars, backupVars, importVars, runtimeVars, egressVars, catalogueVars>>
       \/ live = "catalogue" /\ CatalogueNext
         /\ UNCHANGED <<schemaVars, backupVars, importVars, runtimeVars, egressVars, outboundVars>>

ServiceSpec == ServiceInit /\ [][ServiceNext]_ServiceVars

Interchangeable == Permutations(Alike) \cup Permutations(Request)

\* Every row of these services has its shape, and none loses the row it belongs to.
ServicesTypeOK ==
    /\ SchemaTypeOK /\ BackupTypeOK /\ ImportTypeOK /\ RuntimeTypeOK /\ EgressTypeOK
    /\ OutboundTypeOK /\ CatalogueTypeOK
=============================================================================
