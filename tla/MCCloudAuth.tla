---------------------------- MODULE MCCloudAuth ----------------------------
(* Three streams, one of which has no key, over a secret and a file.         *)
EXTENDS CloudAuth

CONSTANTS s1, s2, s3, key, gcp

InOrder == <<key, gcp>>
Set0 == [v \in Vars |-> IF v = gcp THEN Path ELSE Secret]
=============================================================================
