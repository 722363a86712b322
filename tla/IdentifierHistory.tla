-------------------------- MODULE IdentifierHistory --------------------------
(***************************************************************************)
(* IndexDirectory with a record of the SegmentIds it has used, to state    *)
(* what choose_transaction_identifiers promises about reusing them.        *)
(***************************************************************************)
EXTENDS IndexDirectory

VARIABLE
  committed   \* history: <<generation, identifier>> of what was ever selected,
              \* of the generations up to the visible one

hvars == <<vars, committed>>

Selections(m) == {<<m.generation, i>> : i \in m.active}

HInit ==
  /\ Init
  /\ committed = Selections(dir.man)

\* Only a generation that a power loss has undone is forgotten: it was never
\* durable, and the identifiers it allotted may be allotted again.
Remember ==
  committed' = {c \in committed : c[1] <= dir'.man.generation}
                 \cup Selections(dir'.man)

Used == {c[2] : c \in committed}

\* The transaction has its identifier and has not named the segment yet.
BeforeNaming(w) == pc[w] \in {"recover", "opened", "built", "staged", "synced"}

\* An identifier that the visible generation or one before it has selected
\* never names another segment, although the file is long gone and whatever
\* power losses came between: a reader of the old generation cannot find a
\* newer segment under the name it looks for.
CommittedIdsStayUsed ==
  \A w \in Writers : BeforeNaming(w) => txn[w].id \notin Used
=============================================================================
