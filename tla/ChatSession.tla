----------------------------- MODULE ChatSession -----------------------------
(* One chat session: its messages, and the rolling summary that stands for the *)
(* older ones.  A query reads both in one snapshot, inserts its question, waits *)
(* for the answer, and commits everything at the end; nothing keeps two queries *)
(* of a session apart.                                                          *)
(*   src/backend/chat/router.py   src/backend/chat/session_store.py             *)
(* A message is its id; a text is the set of the messages it tells of.          *)
EXTENDS Naturals, FiniteSets, FiniteSetsExt

CONSTANTS Query,  \* the queries sent to the session
          Keep    \* RECENT_MESSAGE_KEEP_COUNT

VARIABLES exists,    \* the chat_sessions row
          messages,  \* committed chat_messages
          summary,   \* chat_summaries: what it tells of, source_message_id
          nextId,    \* the auto-increment of chat_messages
          pc,
          context,   \* what each query read, and the ids of its own messages
          blind      \* history: committed messages another query could not see
vars == <<exists, messages, summary, nextId, pc, context, blind>>

NoSummary == [text |-> {}, upto |-> 0]
NoContext == [summary |-> NoSummary, recent |-> {}, own |-> {}]
MaxId == 2 * Cardinality(Query)
Goto(q, l) == pc' = [pc EXCEPT ![q] = l]

Init == /\ exists = TRUE
        /\ messages = {} /\ summary = NoSummary /\ nextId = 1
        /\ pc = [q \in Query |-> "new"]
        /\ context = [q \in Query |-> NoContext]
        /\ blind = {}

(* Queries whose transaction is open: what they inserted nobody else sees, and   *)
(* their foreign keys hold the session row.                                       *)
Open == {q \in Query : pc[q] \in {"asked", "answered"}}

(* get_session_context and the insert of the question.  The first read of the    *)
(* transaction, _verify_session_ownership, fixes the snapshot.                    *)
Ask(q) ==
    /\ pc[q] = "new" /\ exists
    /\ context' = [context EXCEPT ![q] =
                      [summary |-> summary,
                       recent  |-> {m \in messages : m > summary.upto},
                       own     |-> {nextId}]]
    /\ nextId' = nextId + 1
    /\ Goto(q, "asked")
    /\ UNCHANGED <<exists, messages, summary, blind>>

(* The answer of the agentic loop, inserted too. *)
Answer(q) ==
    /\ pc[q] = "asked"
    /\ context' = [context EXCEPT ![q].own = @ \cup {nextId}]
    /\ nextId' = nextId + 1
    /\ Goto(q, "answered")
    /\ UNCHANGED <<exists, messages, summary, blind>>

(* 503, a lost connection or a restart: everything is rolled back. *)
Fails(q) ==
    /\ pc[q] \in {"asked", "answered"}
    /\ context' = [context EXCEPT ![q] = NoContext]
    /\ Goto(q, "done")
    /\ UNCHANGED <<exists, messages, summary, nextId, blind>>

Recent(q) == context[q].recent \cup context[q].own
(* recent_messages[:-Keep] *)
OldMessages(q) == {m \in Recent(q) : Cardinality({n \in Recent(q) : n > m}) >= Keep}
\* Mutant: the summary claims every message of the query, kept ones included.
CompressedPast(q) == [text |-> context[q].summary.text \cup OldMessages(q),
                      upto |-> Max(Recent(q))]

(* save_or_update_summary: whatever another query wrote is overwritten. *)
Compressed(q) == [text |-> context[q].summary.text \cup OldMessages(q),
                  upto |-> Max(OldMessages(q))]

(* More than RECENT_MESSAGE_BUDGET tokens, in more than Keep messages: how long   *)
(* the messages are is left open.                                                 *)
Commit(q) ==
    /\ pc[q] = "answered"
    /\ messages' = messages \cup context[q].own
    /\ \/ UNCHANGED summary
       \/ Cardinality(Recent(q)) > Keep /\ summary' = Compressed(q)
    /\ blind' = IF \E p \in Open \ {q} : TRUE
                THEN blind \cup UNION {context[p].own : p \in Open} ELSE blind
    /\ context' = [context EXCEPT ![q] = NoContext]
    /\ Goto(q, "done")
    /\ UNCHANGED <<exists, nextId>>

(* Deleting waits for the rows open transactions inserted. *)
DeleteSession ==
    /\ exists /\ Open = {}
    /\ exists' = FALSE /\ messages' = {} /\ summary' = NoSummary
    /\ UNCHANGED <<nextId, pc, context, blind>>

Next == \/ \E q \in Query : Ask(q) \/ Answer(q) \/ Fails(q) \/ Commit(q)
        \/ DeleteSession
Spec == Init /\ [][Next]_vars

-----------------------------------------------------------------------------
(* What the next question will be asked with: the summary and the messages after *)
(* it tell of every committed message, unless it was written by a query that     *)
(* overlapped another one; the summary tells of nothing that was not said; the   *)
(* last Keep messages are never only summarised; and a deleted session leaves    *)
(* neither messages nor a summary (router.py:286-322, session_store.py:23).      *)
Window == {m \in messages : m > summary.upto}
SessionRemembers ==
    /\ messages \ (summary.text \cup Window) \subseteq blind
    /\ summary.text \subseteq messages
    /\ summary.upto > 0 => Cardinality(Window) >= Keep
    /\ ~exists => messages = {} /\ summary = NoSummary
=============================================================================
