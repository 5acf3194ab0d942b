----------------------------- MODULE SessionLog -----------------------------
(***************************************************************************)
(* What a research session promises to its clients, with no file in sight: *)
(* one log of events that only grows, to which whole batches are added by  *)
(* compare-and-swap.  A batch is first offered on top of the log the       *)
(* writer saw and later committed; an offer that is never committed leaves *)
(* the log alone, and at most one batch can ever follow a given history.   *)
(* SessionStore implements this with segment files, a head file and a      *)
(* lock file.                                                              *)
(***************************************************************************)
EXTENDS Sequences, SequencesExt

CONSTANTS
    Clients,    \* the processes that call the session API
    Event,      \* the events a log may hold
    Batches     \* the non-empty sequences of events a client may offer

VARIABLES
    log,        \* the committed history; empty before the session exists
    offers,     \* every batch ever put forward, with the history it extends
    view        \* what each client was last shown of the log

logVars == <<log, offers, view>>

Offer == [base : Seq(Event), batch : Seq(Event)]

LogTypeOK ==
    /\ log \in Seq(Event)
    /\ offers \subseteq Offer
    /\ view \in [Clients -> Seq(Event)]

LogInit ==
    /\ log = <<>>
    /\ offers = {}
    /\ view = [c \in Clients |-> <<>>]

(* The first event brings the log into being, offered and committed at once. *)
Found ==
    /\ log = <<>>
    /\ \E e \in Event :
          /\ log' = <<e>>
          /\ offers' = offers \cup {[base |-> <<>>, batch |-> <<e>>]}
    /\ UNCHANGED view

(* A batch is offered on top of the whole log, unless one already is. *)
Propose(b) ==
    /\ log # <<>>
    /\ \A o \in offers : o.base # log
    /\ offers' = offers \cup {[base |-> log, batch |-> b]}
    /\ UNCHANGED <<log, view>>

(* The offer that extends the log becomes part of it, whole. *)
Commit(o) ==
    /\ o.base = log
    /\ log' = log \o o.batch
    /\ UNCHANGED <<offers, view>>

(* A client is shown history the log holds, possibly not all of it. *)
Observe(c) ==
    /\ \E n \in 1..Len(log) : view' = [view EXCEPT ![c] = SubSeq(log, 1, n)]
    /\ UNCHANGED <<log, offers>>

(* A client that dies forgets what it was shown. *)
Forget(c) ==
    /\ view' = [view EXCEPT ![c] = <<>>]
    /\ UNCHANGED <<log, offers>>

LogNext ==
    \/ Found
    \/ \E b \in Batches : Propose(b)
    \/ \E o \in offers : Commit(o)
    \/ \E c \in Clients : Observe(c) \/ Forget(c)

LogSpec == LogInit /\ [][LogNext]_logVars
=============================================================================
