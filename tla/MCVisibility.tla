---------------------------- MODULE MCVisibility ----------------------------
(* Small segment lists for Visibility: every list of at most MaxSegments    *)
(* segments over the paths, at most MaxDocs records each.  Paths differ     *)
(* within a segment: scanning and planning never list a path twice.         *)
EXTENDS Visibility, FiniteSets, SequencesExt

CONSTANTS MaxSegments, MaxDocs

Tables ==
  {T \in BoundedSeq({r \in Records : r.live \/ r.terms = {}}, MaxDocs) :
     \A i, j \in DOMAIN T : i # j => T[i].path # T[j].path}

MCInputs ==
  UNION {[1 .. n -> [positions : {TRUE}, docs : Tables]] : n \in 0 .. MaxSegments}
    \cup {<<[positions |-> a, docs |-> T], [positions |-> b, docs |-> T]>> :
            a \in BOOLEAN, b \in BOOLEAN, T \in Tables}
=============================================================================
