---------------------------- MODULE TextSnapshot ----------------------------
(***************************************************************************)
(* Text snapshots: the writers and readers of internal/format/tsv.go and   *)
(* ndjson.go, and the test of internal/core/verify.go.                     *)
(*                                                                         *)
(* A record is [entity, path, meta].  Both paths are sequences of names; a *)
(* text is trimmed, nulled or escaped by what that does to the form of a   *)
(* name: "plain", "hash" (begins with #), "tab" (a tab or newline inside), *)
(* "space" (the same with a space), "edge" (ends with a space), "broken"   *)
(* (not UTF-8), "mended" (with U+FFFD instead), "reserved" and "backslash" *)
(* (see Paths), and Dash is the name "-".                                  *)
(*                                                                         *)
(* A file is [format, zipped, sound, headed, rows, torn, hash]: its frames *)
(* decompress; its first line is a header; the rows; the last row is torn  *)
(* off before its end; hash stands for the rows the header vouches for.    *)
(***************************************************************************)
EXTENDS Paths, FiniteSets

Dash == [base |-> "-", form |-> "dash"]

Reform(text, from, to) ==
    [k \in DOMAIN text |-> IF text[k].form = from THEN [text[k] EXCEPT !.form = to] ELSE text[k]]

\* sanitizeTSVField and unnull.  Only the end of a text can be trimmed.
Sanitize(text) == IF text = <<>> THEN <<Dash>> ELSE Reform(text, "tab", "space")
Trim(text) ==
    [k \in DOMAIN text |->
        IF k = Len(text) /\ text[k].form = "edge" THEN [text[k] EXCEPT !.form = "plain"] ELSE text[k]]
Unnull(text) == IF Trim(text) = <<Dash>> THEN <<>> ELSE Trim(text)

\* TSV has no column for the SID of the owner.
WithoutSid(meta) == [meta EXCEPT !.sid = <<>>]

\* WriteRecord of both writers.
Row(format, rec) ==
    IF format = "tsv"
    THEN [entity |-> Sanitize(rec.entity), path |-> Sanitize(rec.path),
          meta |-> WithoutSid(rec.meta)]
    ELSE [entity |-> Reform(rec.entity, "broken", "mended"),
          path |-> Reform(rec.path, "broken", "mended"), meta |-> rec.meta]

Snapshot(format, zipped, records) ==
    LET rows == [k \in DOMAIN records |-> Row(format, records[k])]
    IN  [format |-> format, zipped |-> zipped, sound |-> TRUE, headed |-> TRUE,
         rows |-> rows, torn |-> FALSE, hash |-> rows]

\* A TSV row that looks like a comment: its first column begins with "#".
IsComment(row) == row.entity # <<>> /\ row.entity[1].form = "hash"

\* ReadTSVRecords and ReadNDJSONRecords: the records, if there is no error.
\* Neither looks at the hash or the count of the header, and for NDJSON any
\* first line is one: without its header a file loses its first record.
Readable(file) ==
    /\ file.sound /\ ~file.torn
    /\ file.headed \/ (file.format = "ndjson" /\ file.rows # <<>>)

\* A record goes by the number of its row.
ReadRecords(file) ==
    IF file.format = "tsv"
    THEN [k \in {j \in DOMAIN file.rows : ~IsComment(file.rows[j])} |->
            [entity |-> Unnull(file.rows[k].entity), path |-> Unnull(file.rows[k].path),
             meta |-> file.rows[k].meta]]
    ELSE [k \in {j \in DOMAIN file.rows : file.headed \/ j > 1} |-> file.rows[k]]

\* The comments right after the header are read before the hash starts.
Hashed(file) ==
    LET IsData(row) == file.format = "tsv" => ~IsComment(row)
    IN  [k \in {j \in DOMAIN file.rows : \E i \in 1..j : IsData(file.rows[i])} |-> file.rows[k]]

\* Verify: every path as it would be normalised, every row complete, and the
\* hash.  A row that looks like a comment is hashed and otherwise passed over;
\* a count other than the header's is mentioned, and changes nothing.
SyntaxValid(file) ==
    /\ ~file.torn
    /\ \A k \in DOMAIN file.rows :
        \/ file.format = "tsv" /\ IsComment(file.rows[k])
        \/ IsNormal(file.rows[k].path)

\* A variant that trusts the count of the header instead of the hash.
CountValid(file) == ~file.torn /\ Cardinality(DOMAIN Hashed(file)) = Len(file.hash)

ChecksumValid(file) == ~file.torn /\ Hashed(file) = file.hash

Verify(file) == file.sound /\ file.headed /\ SyntaxValid(file) /\ ChecksumValid(file)
=============================================================================
