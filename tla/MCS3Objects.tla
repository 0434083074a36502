---------------------------- MODULE MCS3Objects ----------------------------
(* S3Objects for TLC. *)
EXTENDS S3Objects

\* Object lock with a default retention rule, and a document that turns both off.
MCLockDocs == {[lock |-> TRUE, rule |-> "GOVERNANCE"], [lock |-> FALSE, rule |-> "none"]}

\* Copies; lifecycle passes, with and against object locks; multipart uploads.
MCWorkloads == {{"copy", "lock"},
                {"lock", "expire", "marker", "noncurrent"},
                {"uploads", "abort"}}
============================================================================
