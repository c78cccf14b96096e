---------------------------- MODULE MCS3Requests ----------------------------
(* Values for TLC: four keys, the first two in a common prefix and the     *)
(* last in one of its own, and two uploads of each of two keys.            *)
EXTENDS S3Requests, TLC

MCGroupOf == <<1, 1, 0, 2>>
MCUploads == {1, 2} \X {1, 2}
=============================================================================
