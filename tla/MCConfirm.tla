------------------------------ MODULE MCConfirm ------------------------------
\* The confirmations of a provider's metadata and of a source update, on the same
\* rows, and those of the media pages: live says which one runs.  An update needs
\* a source with an identity and never reads the orphans.  A part that does not
\* run starts in one state; two parts may use the same model values.
EXTENDS ProviderApply, ManualUpdate, MediaConfirmations, TLC

VARIABLE live

ConfirmVars == <<rowVars, applyVars, updateVars, confirmVars, live>>

ConfirmInit ==
    /\ live \in {"apply", "update", "pages"}
    /\ \/ live = "pages"
       \/ media = [p \in CName |-> NoMedia] /\ owner = [x \in CObj |-> [path |-> NoName, rev |-> 0]]
    /\ RowsInit /\ ApplyStart /\ UpdateStart /\ FormInit
    /\ live # "apply" => orphans = {} /\ IdentitySources \cap UrlSources # {}
    /\ live = "pages" => items[1].summary = Blank

ConfirmNext ==
    /\ UNCHANGED live
    /\ \/ live = "apply" /\ ApplyNext /\ UNCHANGED <<updateVars, confirmVars>>
       \/ live = "update" /\ UpdateNext /\ UNCHANGED <<applyVars, confirmVars>>
       \/ live = "pages" /\ FormNext /\ UNCHANGED <<rowVars, applyVars, updateVars>>

ConfirmSpec == ConfirmInit /\ [][ConfirmNext]_ConfirmVars

Interchangeable == Permutations(Confirm) \cup Permutations(Update)

\* Rows, tokens, requests and forms have the shape the code gives them.
ConfirmationTypeOK == ApplyTypeOK /\ UpdateTypeOK /\ ConfirmTypeOK
==============================================================================
