-------------------------- MODULE DataQueryClaims --------------------------
(***************************************************************************)
(* What comments say of GET_DATA and the code does not do.  Each           *)
(* definition is refuted by a run of its own.                              *)
(***************************************************************************)
EXTENDS MCDataQuery

(* models/filters/filters.ts 3: or is the "OR condition".  A query with     *)
(* room for all rows selects exactly those its tree describes; the leaves   *)
(* of an OR group are joined by AND, and an OR group after other filters    *)
(* overrides them.                                                          *)
OrMeansOr ==
  Own /\ query.limit = 3 /\ query.wrapper # <<>> /\ Cardinality(snap.rows) <= 3 =>
    ToSet(result.rows) = {r \in snap.rows : Meets(query, r)}

(* worker.ts 502: "0 -> undefined (no limit)".  A query without a limit     *)
(* selects all its rows; the 0 that is read for it is kept, and selects     *)
(* none.                                                                    *)
ZeroLimitMeansAll == Own /\ query.limit = Absent => ToSet(result.rows) = snap.rows

(* worker.ts 143: "encode each value as StringValue (safe default)".  A     *)
(* page that is asked for with such a cursor comes after the pages before   *)
(* it; after a page that ends with a NULL text, it goes on from the text    *)
(* "null", and shows rows again.                                            *)
CursorTextSafe ==
  Own => \A r \in ToSet(result.rows), q \in got : Before(request.order, q, r)

(* sql-rpc.ts 248: "the same shape you publish to Streams; we translate it  *)
(* for the codec".  A sort is translated to the one that is published; one  *)
(* that is not known is descending there and ascending here.                *)
SortsAgree ==
  caller = "subscriber" /\ Own /\ published # <<>> => published[1].order = request.order

(* postgress_manager.ts 79: the LSN is included "so the gateway can resume  *)
(* CDC safely".  Each commit up to it is in the rows; one that is logged    *)
(* before the LSN is read, and shown after the snapshot, is not.            *)
FenceResumesSafely == stage = "replied" => 1..lsn \subseteq snap.lsns
=============================================================================
