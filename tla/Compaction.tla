----------------------------- MODULE Compaction -----------------------------
(***************************************************************************)
(* Context compaction of one chat session of a cloud provider              *)
(* (chat/cloud_compact.rs, compact_session of chat/commands/selection.rs,  *)
(* the hook in chat/commands/send.rs, the row operations of db/chat.rs).   *)
(* A pass reads the active rows, has a model summarize the aged-out ones   *)
(* while no lock is held, and then writes a summary row and points the     *)
(* rows it folded at it.  Meanwhile messages arrive and are deleted, the   *)
(* user edits an old message, a checkpoint is restored, other passes run.  *)
(***************************************************************************)
EXTENDS Naturals, FiniteSets

CONSTANTS
  Claimers,  \* passes of compact_session: "Compact now", the idle sweep
  Senders,   \* passes of a turn: before its request, after an overflow
  PinMsgs,   \* messages kept verbatim; the code's pin_exchanges * 2
  MaxRows,   \* bound: rows ever written
  MaxOps     \* bound: deletes, edits and restores of the user

ASSUME CompactionAssumption ==
  /\ Claimers \cap Senders = {}
  /\ PinMsgs \in Nat /\ MaxRows \in Nat /\ MaxOps \in Nat

Passes == Claimers \union Senders
Ids == 1 .. MaxRows
None == 0

VARIABLES
  last,     \* the last id given out: AUTOINCREMENT never gives one twice
  rows,     \* the rows that exist
  sums,     \* the ids that were given to summary rows
  sup,      \* superseded_by of each row; None is NULL
  text,     \* the messages a row tells the model of
  claims,   \* the pass in compact_in_flight, as a set
  pc,       \* where each pass is
  shown,    \* the summary each pass loaded
  seen,     \* the other active rows it loaded
  raw,      \* the folded rows it re-feeds
  editing,  \* the message a phone is editing, until its send is known
  ops,      \* the user's deletes, edits and restores so far
  stale,    \* history: passes during which another one wrote its summary
  harm      \* history: what has happened that hides rows from the model

vars == <<last, rows, sums, sup, text, claims, pc, shown, seen, raw, editing,
          ops, stale, harm>>

table == <<last, rows, sums, sup, text>>
pass == <<claims, pc, shown, seen, raw, stale>>

Harms == {"rolled", "forked", "crossed", "stacked"}

TypeOK ==
  /\ last \in 0 .. MaxRows
  /\ rows \subseteq 1 .. last
  /\ sums \subseteq 1 .. last
  /\ sup \in [Ids -> 0 .. last]
  /\ text \in [Ids -> SUBSET Ids]
  /\ claims \subseteq Claimers
  /\ pc \in [Passes -> {"idle", "claimed", "loaded", "body"}]
  /\ shown \in [Passes -> 0 .. last]
  /\ seen \in [Passes -> SUBSET (1 .. last)]
  /\ raw \in [Passes -> SUBSET (1 .. last)]
  /\ editing \in 0 .. last
  /\ ops \in 0 .. MaxOps
  /\ stale \subseteq Passes
  /\ harm \subseteq Harms

Init ==
  /\ last = 0 /\ rows = {} /\ sums = {}
  /\ sup = [r \in Ids |-> None]
  /\ text = [r \in Ids |-> {}]
  /\ claims = {}
  /\ pc = [p \in Passes |-> "idle"]
  /\ shown = [p \in Passes |-> None]
  /\ seen = [p \in Passes |-> {}]
  /\ raw = [p \in Passes |-> {}]
  /\ editing = None
  /\ ops = 0
  /\ stale = {} /\ harm = {}

-----------------------------------------------------------------------------
(* The table of messages *)

Active == {r \in rows : sup[r] = None}

Newest(set) == IF set = {} THEN None ELSE CHOOSE r \in set : \A q \in set : q <= r
Oldest(set) == CHOOSE r \in set : \A q \in set : r <= q

\* The only summary a load of the session takes up.
Summary == Newest(Active \cap sums)

\* The messages a load of the session tells the model of.
LoadTells == UNION {text[r] : r \in (Active \ sums) \union ({Summary} \ {None})}

Folded(s) == {r \in rows : sup[r] = s}

Point(set, to) == [r \in Ids |-> IF r \in set THEN to ELSE sup[r]]

Insert(says) ==
  /\ last < MaxRows
  /\ last' = last + 1
  /\ rows' = rows \union {last + 1}
  /\ text' = [text EXCEPT ![last + 1] = says]

AddMessage ==
  /\ Insert({last + 1})
  /\ UNCHANGED <<sums, sup, pass, editing, ops, harm>>

UserOp ==
  /\ ops < MaxOps
  /\ ops' = ops + 1

\* fault: a delete that releases nothing
DeleteMessage_keeps(r) ==
  /\ UserOp
  /\ r \in rows
  /\ rows' = rows \ {r}
  /\ sup' = Point({r}, None)
  /\ UNCHANGED <<last, sums, text, pass, editing, harm>>

\* Deleting a summary releases the rows it folded.
DeleteMessage(r) ==
  /\ UserOp
  /\ r \in rows
  /\ rows' = rows \ {r}
  /\ sup' = Point(Folded(r) \union {r}, None)
  /\ UNCHANGED <<last, sums, text, pass, editing, harm>>

\* An edit retires the message and all active rows after it: a summary that
\* keeps only earlier rows is one of them when it was written later.
MarkBranch(m) ==
  /\ UserOp
  /\ m \in rows \ sums
  /\ sup' = Point({r \in Active : r >= m}, m)
  /\ harm' = harm \union {h \in {"forked"} : \E s \in Active \cap sums : s >= m}
  /\ UNCHANGED <<last, rows, sums, text, pass>>

SupersedeTail(m) ==
  /\ MarkBranch(m)
  /\ UNCHANGED editing

\* A phone's edit undoes the branch when its send is rejected.
EditMessage(m) ==
  /\ MarkBranch(m)
  /\ editing = None
  /\ editing' = m

EditSent ==
  /\ editing # None
  /\ editing' = None
  /\ UNCHANGED <<table, pass, ops, harm>>

EditRejected ==
  /\ editing # None
  /\ sup' = Point(Folded(editing), None)
  /\ editing' = None
  /\ UNCHANGED <<last, rows, sums, text, pass, ops, harm>>

\* The restore of a checkpoint deletes what came after it, and releases
\* nothing: a kept row that a deleted summary folded goes on pointing at it.
Rollback(after) ==
  LET kept == {r \in rows : r <= after} IN
  /\ UserOp
  /\ kept # rows
  /\ rows' = kept
  /\ sup' = Point(rows \ kept, None)
  /\ harm' = harm \union {h \in {"rolled"} : \E r \in kept : sup[r] > after}
  /\ UNCHANGED <<last, sums, text, pass, editing>>

-----------------------------------------------------------------------------
(* A pass.  Only those of compact_session claim the session. *)

Claim(p) ==
  /\ p \in Claimers /\ pc[p] = "idle" /\ claims = {}
  /\ claims' = {p}
  /\ pc' = [pc EXCEPT ![p] = "claimed"]
  /\ UNCHANGED <<table, shown, seen, raw, stale, editing, ops, harm>>

\* fault: the read skips every system row
Load_blind(p) ==
  /\ pc[p] = IF p \in Claimers THEN "claimed" ELSE "idle"
  /\ pc' = [pc EXCEPT ![p] = "loaded"]
  /\ seen' = [seen EXCEPT ![p] = Active \ sums]
  /\ UNCHANGED <<table, claims, shown, raw, stale, editing, ops, harm>>

Load(p) ==
  /\ pc[p] = IF p \in Claimers THEN "claimed" ELSE "idle"
  /\ pc' = [pc EXCEPT ![p] = "loaded"]
  /\ shown' = [shown EXCEPT ![p] = Summary]
  /\ seen' = [seen EXCEPT ![p] = Active \ sums]
  /\ UNCHANGED <<table, claims, raw, stale, editing, ops, harm>>

\* Rebuild from raw: the rows the summary folded are summarized again.
Refeed(p) ==
  /\ p \in Senders /\ pc[p] = "loaded"
  /\ shown[p] # None /\ raw[p] = {} /\ Folded(shown[p]) # {}
  /\ raw' = [raw EXCEPT ![p] = Folded(shown[p])]
  /\ UNCHANGED <<table, claims, pc, shown, seen, stale, editing, ops, harm>>

\* The first summary of the entries: re-fed rows come before the one shown.
Prior(p) == IF raw[p] \cap sums = {} THEN shown[p] ELSE Oldest(raw[p] \cap sums)

Remaining(p) == (raw[p] \union {shown[p]} \union seen[p]) \ {Prior(p), None}

Place(p, r) == IF r \in seen[p] THEN 2 ELSE IF r = shown[p] THEN 1 ELSE 0

Before(p, q, r) ==
  Place(p, q) < Place(p, r) \/ (Place(p, q) = Place(p, r) /\ q < r)

\* All but the last PinMsgs of the rest: what aged out.
ToCompact(p) ==
  LET rest == Remaining(p)
  IN  {r \in rest : Cardinality({q \in rest : Before(p, r, q)}) >= PinMsgs}

\* The summarizer's input budget drops the oldest of them.
Fits(p) ==
  LET aged == ToCompact(p)
  IN  {fit \in SUBSET aged : \A r \in fit, q \in aged : Before(p, r, q) => q \in fit}

\* The summarizer's answer begins: its headers are there, its body is not.
Answers(p) ==
  /\ pc[p] = "loaded" /\ ToCompact(p) # {}
  /\ pc' = [pc EXCEPT ![p] = "body"]
  /\ UNCHANGED <<table, claims, shown, seen, raw, stale, editing, ops, harm>>

Return(p) ==
  /\ pc' = [pc EXCEPT ![p] = "idle"]
  /\ shown' = [shown EXCEPT ![p] = None]
  /\ seen' = [seen EXCEPT ![p] = {}]
  /\ raw' = [raw EXCEPT ![p] = {}]

\* fault: an error return before the claim is an RAII guard
GiveUp_keeps(p) ==
  /\ pc[p] # "idle"
  /\ Return(p)
  /\ stale' = stale \ {p}
  /\ UNCHANGED <<table, claims, editing, ops, harm>>

\* Nothing aged out, no provider or key, a summarizer that fails, sends no
\* headers for 180 s or a body that breaks off.
GiveUp(p) ==
  /\ pc[p] # "idle"
  /\ Return(p)
  /\ claims' = claims \ {p}
  /\ stale' = stale \ {p}
  /\ UNCHANGED <<table, editing, ops, harm>>

\* fault: the rows the budget cut are superseded too
SupersededIds_all(p, fit) == ToCompact(p) \union ({Prior(p)} \ {None})

SupersededIds(p, fit) == fit \union ({Prior(p)} \ {None})

\* The summarizer has answered: the summary row is written and the rows it
\* folds are pointed at it, whatever happened to them since they were read.  The
\* request a sender's pass hands back to its turn is this summary and the pinned
\* rows, without what the budget cut; it is sent and leaves no state behind.
Persist(p) ==
  /\ pc[p] = "body"
  /\ \E fit \in Fits(p) :
       /\ Insert(UNION {text[r] : r \in (fit \union {Prior(p)}) \ {None}})
       /\ sup' = Point(SupersededIds(p, fit) \cap rows, last + 1)
       /\ harm' = harm \union {h \in {"crossed"} : p \in stale}
                       \union {h \in {"stacked"} : shown[p] \notin SupersededIds(p, fit) \union {None}}
  /\ sums' = sums \union {last + 1}
  /\ stale' = {q \in Passes \ {p} : pc[q] \in {"loaded", "body"}}
  /\ Return(p)
  /\ claims' = claims \ {p}
  /\ UNCHANGED <<editing, ops>>

-----------------------------------------------------------------------------

PassStep(p) ==
  Claim(p) \/ Load(p) \/ Refeed(p) \/ Answers(p) \/ GiveUp(p) \/ Persist(p)

Next ==
  \/ AddMessage \/ EditSent \/ EditRejected
  \/ \E r \in Ids : DeleteMessage(r) \/ SupersedeTail(r) \/ EditMessage(r)
  \/ \E after \in 0 .. MaxRows : Rollback(after)
  \/ \E p \in Passes : PassStep(p)

Spec == Init /\ [][Next]_vars

\* The timeout bounds the wait for the headers; the body has none, on a client
\* that has none either.  The rest is straight code.
FairSpec ==
  Spec /\ \A p \in Passes : WF_vars(pc[p] # "body" /\ (Answers(p) \/ GiveUp(p)))

-----------------------------------------------------------------------------
(* Properties *)

Retired(r) == sup[r] \in Ids \ sums

\* Unless a checkpoint was restored, no row points at a row that is gone:
\* whoever deletes a summary or the first row of a branch releases the rows
\* under it, whichever passes and edits have pointed them elsewhere since.
NoGhost == "rolled" \notin harm => \A r \in rows : sup[r] \in rows \union {None}

\* What a row folded into a summary says went into the summary's text, even
\* when the input budget cut the head, an earlier summary was re-derived from
\* its rows, or two passes folded the same rows.
FoldedIsSummarised ==
  \A r \in rows : sup[r] \in sums => text[r] \subseteq text[sup[r]]

\* No message the user has kept is lost to later turns: the next load of the
\* session shows it to the model, itself or in the summary, but where one of the
\* four harms has been done: a restore below a summary, an edit above one, two
\* passes that crossed, a re-fed summary left unfolded.  (The request of a pass
\* itself may leave out rows, those the input budget cut: they stay active.)
NothingLost == harm = {} => \A r \in rows \ sums : Retired(r) \/ r \in LoadTells

\* A session is not left claimed, and another pass of compact_session can run,
\* whichever way the pass ends: but for one whose summarizer never ends its body.
ClaimReturns ==
  \A p \in Claimers :
    [](p \in claims => <>(p \notin claims) \/ <>[](pc[p] = "body"))

=============================================================================
