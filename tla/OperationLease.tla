----------------------------- MODULE OperationLease -----------------------------
(***************************************************************************)
(* The lease on a row of the operation journal, as the conditional writes  *)
(* of RevisionOperationStore test and set it.  A row is any record with    *)
(* the fields status, owner (recovery_token), expires (lease_expires_at)   *)
(* and attempts (recovery_attempt_count).  A lease binds only those who    *)
(* write the row: nothing in the memories collection looks at it.          *)
(***************************************************************************)
EXTENDS Integers

CONSTANT None  \* an empty payload field

\* A lease that expires at `now` is still its owner's and already free.
Free(row, now) == row.owner = None \/ row.expires <= now

\* The filter of _claim_locked.
MayClaim(row, w, now, allowed) ==
    row.status \in allowed /\ (Free(row, now) \/ row.owner = w)

\* What _claim_locked stores; `attempts` was read before the write.
Leased(row, w, until, attempts) ==
    [row EXCEPT !.status = "applying", !.owner = w, !.expires = until,
                !.attempts = attempts + 1]

\* The read with which _claim_locked finds out whether it won.
HoldsClaim(row, w) == row.status = "applying" /\ row.owner = w

\* The filter of write_claimed and renew_claim.
MayWrite(row, w, now) == HoldsClaim(row, w) /\ row.expires >= now

\* The filter of terminalize_unclaimed.
MayTerminalize(row, now, allowed) == row.status \in allowed /\ Free(row, now)

===============================================================================
