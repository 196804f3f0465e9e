---------------------------- MODULE LeakReport ----------------------------
(***************************************************************************)
(* What the leak checker prints: the report of a test that failed          *)
(* (mptest__leakcheck_report_test) and the dump of all records             *)
(* (mptest_malloc_dump).  Both only read the records, so they are functions *)
(* of the state; they print in the order of the list, so what is printed   *)
(* of the records is told by their indices.                                *)
(***************************************************************************)
EXTENDS LeakCheck

Failed == {"FAIL", "ERROR"}

\* A test that passed or was skipped has no report, nor one the checker has
\* nothing to say of.
Reports(res) == fail_reason # "PASS" /\ res \in Failed

\* The lines before the leaks: what happened, with which pointer, and where.
Accusation ==
    CASE fail_reason \in {"PASS", "LEAKED"} -> {}
      [] fail_reason = "NOMEM" -> {"cause"}
      [] fail_reason \in {"REALLOC_OF_NULL", "FREE_OF_NULL"} -> {"cause", "place"}
      [] OTHER -> {"cause", "pointer", "place"}

\* Mutant: a block that was moved is not looked at.
ListedUnmoved == {b \in FreeableBlocks : "INITIAL" \in blocks[b].flags}

\* The records listed as leaks: whenever there are any, whatever the reason.
Listed == IF fail_reason = "LEAKED" \/ HasLeaks THEN FreeableBlocks ELSE {}

\* How a leak says it was allocated, and the record printed behind "from".
Origin(b) == IF "INITIAL" \in blocks[b].flags THEN "malloc"
             ELSE IF "REALLOC_NEW" \in blocks[b].flags THEN "realloc"
             ELSE "unknown"
From(b) == IF Origin(b) = "realloc" THEN blocks[b].realloc_prev ELSE 0

\* A line of the dump: the pointer, the flags, and the pointer it came from.
DumpLine(b) ==
    [pointer |-> blocks[b].header, flags |-> blocks[b].flags,
     from |-> IF blocks[b].realloc_prev = 0 THEN NULL
              ELSE blocks[blocks[b].realloc_prev].header]
-----------------------------------------------------------------------------
(* Properties *)

\* The blocks of the program's own that libc has not got back.
InUse == {a \in Addr : heap[a] = "hooked"}

\* A report is never empty, the pointers it lists are those of the blocks in
\* use, each once, and it tells of each how it was made; a block that was moved
\* names a record that can itself not be listed.
ReportSound(res) ==
    Reports(res) =>
        /\ Accusation # {} \/ Listed # {}
        /\ {blocks[b].header : b \in Listed} = InUse
        /\ \A b, c \in Listed : blocks[b].header = blocks[c].header => b = c
        /\ \A b \in Listed :
              /\ Origin(b) # "unknown"
              /\ Origin(b) = "realloc" => From(b) \in DOMAIN blocks \ Listed

\* Read from the bottom up, the dump leads from every block that was moved to
\* an earlier line that says it was.
DumpSound ==
    \A b \in DOMAIN blocks :
        DumpLine(b).from # NULL =>
            \E c \in 1 .. b - 1 : /\ DumpLine(c).pointer = DumpLine(b).from
                                  /\ "REALLOC_OLD" \in DumpLine(c).flags

Truthful == (\A res \in Failed : ReportSound(res)) /\ DumpSound

TestOver == phase' = "outside" /\ phase # "outside"

\* What is printed when a test is over is true of the program, however the
\* test ended, unless libc refused the record of a block that realloc() had
\* moved: then the address printed for that block is the one it had before.
ReportListsLeaks == [][TestOver => Truthful']_vars

\* Even then the report has one line for each block in use and no other: the
\* record of the line is the one the header of the block leads to.
OneLineEach ==
    (\E res \in Failed : Reports(res)) =>
        /\ {header[a] : a \in InUse} = Listed
        /\ Cardinality(InUse) = Cardinality(Listed)
ReportCountsLeaks == [][TestOver => OneLineEach']_vars
=============================================================================
