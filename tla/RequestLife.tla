---------------------------- MODULE RequestLife ----------------------------
(***************************************************************************)
(* The shape of a use case that edits a stored row without a transaction:  *)
(* it reads the row, decides by what it has read, and writes the row back. *)
(* It may stop after any step: a call that fails, or a process that dies.  *)
(***************************************************************************)
CONSTANT Requests   \* bound: the requests that are ever made

VARIABLE req        \* req[r]: what request r has read and is going to write

\* on: the row; ask: what the caller asked for; seen: the row as it was read;
\* moved: the stored object has been put or deleted.  overlap is history: a
\* request on the same row has read it while this one was under way.
Unasked == [kind |-> "none", on |-> "none", ask |-> "none", pc |-> "idle",
            seen |-> "none", moved |-> FALSE, overlap |-> FALSE]

RequestInit == req = [r \in Requests |-> Unasked]

\* Requests on the same row that have read it and not yet written it.
UnderWay(r, on) ==
    {q \in Requests \ {r} : req[q].on = on /\ req[q].pc = "read"}

Asked(r, kind, on, ask) ==
    /\ req[r].pc = "idle"
    /\ req' = [req EXCEPT ![r] = [Unasked EXCEPT
                  !.kind = kind, !.on = on, !.ask = ask, !.pc = "asked"]]

\* The read of a request that is now on row on.
HasRead(r, kind, on, ask, row) ==
    LET others == UnderWay(r, on) IN
    req' = [q \in Requests |->
              IF q = r THEN [Unasked EXCEPT
                  !.kind = kind, !.on = on, !.ask = ask, !.pc = "read",
                  !.seen = row, !.overlap = others # {}]
              ELSE [req[q] EXCEPT !.overlap = @ \/ q \in others]]

AskedAndRead(r, kind, on, ask, row) ==
    req[r].pc = "idle" /\ HasRead(r, kind, on, ask, row)

Moved(r) == req' = [req EXCEPT ![r].moved = TRUE]

Done(r) == req' = [req EXCEPT ![r] =
                     [Unasked EXCEPT !.pc = "done", !.overlap = req[r].overlap]]

Doing(r, kind) == req[r].kind = kind /\ req[r].pc = "read"

\* Request r makes its last step, which may write its row.
Ends(r) == req[r].pc = "read" /\ req'[r].pc = "done"

Stop(r) == req[r].pc \in {"asked", "read"} /\ Done(r)

=============================================================================
