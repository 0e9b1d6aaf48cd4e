--------------------------- MODULE MCUploadStorage ---------------------------
(* Two configurations for UploadStorage: quotas that bind on an ample disk,  *)
(* and a disk that binds under ample quotas.                                 *)
EXTENDS UploadStorage

QuotaBinds == [max_total_bytes |-> 3, max_file_count |-> 2, reserved_free_bytes |-> 1, disk |-> 8]
DiskBinds == [max_total_bytes |-> 6, max_file_count |-> 4, reserved_free_bytes |-> 1, disk |-> 4]
TwoPolicies == {QuotaBinds, DiskBinds}
==============================================================================
