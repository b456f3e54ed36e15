--------------------------- MODULE MCConfiguration ---------------------------
(* The inputs of Configuration: documents and hosts that are at most one number, *)
(* one path or one flag away from the installed ones, with every level, debug    *)
(* flag and directory; and command lines one edit away from the manager's.       *)
EXTENDS Configuration, SequencesExt

Shipped ==
  [wellFormed |-> TRUE, schema |-> 1,
   numbers |-> [f \in Fields |-> IF f \in {"stderr", "work"} THEN 0 ELSE 1],
   debug |-> FALSE, level |-> "info", directory |-> [size |-> 1, portable |-> TRUE],
   audio |-> FALSE]

Boundary(f) == {0, 1, High(f), High(f) + 1}

Renumbered == {[Shipped EXCEPT !.numbers[f] = n] : f \in Fields, n \in 0 .. MaxWord}

MCDocuments ==
  {[d EXCEPT !.debug = b, !.level = l, !.directory = dir] :
     d \in {r \in Renumbered : \A f \in Fields : r.numbers[f] \in Boundary(f)},
     b \in BOOLEAN, l \in LogLevels,
     dir \in [size : {0, 1, MaxDirectory, MaxDirectory + 1}, portable : {TRUE}]}
  \cup {[Shipped EXCEPT !.wellFormed = FALSE], [Shipped EXCEPT !.schema = 2],
        [Shipped EXCEPT !.directory.portable = FALSE], [Shipped EXCEPT !.audio = TRUE]}

Installed ==
  LET p == [absolute |-> TRUE, size |-> 2, nul |-> FALSE, unicode |-> TRUE]
  IN  [runtime |-> p, plugin |-> p, base |-> p]

MCHosts ==
  {[Installed EXCEPT ![x] = p] :
     x \in {"runtime", "plugin", "base"},
     p \in [absolute : BOOLEAN, size : {2, MaxPath - MaxDirectory - 1, MaxPath, MaxPath + 1},
            nul : BOOLEAN, unicode : {TRUE}]}
  \cup {[Installed EXCEPT ![x].unicode = FALSE] : x \in {"runtime", "plugin", "base"}}

Arguments ==
  {Option(n) : n \in OptionNames \cup {"other"}}
  \cup {Digits(s) : s \in UNION {[1 .. k -> 0 .. 9] : k \in 0 .. 3}}
  \cup {Word(w) : w \in LogLevels \cup {"true", "false", "other"}}
  \cup {PathArgument(p) : p \in [absolute : BOOLEAN, size : {1, MaxPath, MaxPath + 1}, nul : {FALSE},
                                 unicode : BOOLEAN]}

Line(b, l, g) == CommandLine([Shipped EXCEPT !.debug = b, !.level = l], Installed, g)

\* An argument replaced, removed or repeated, a pair removed, or two pairs exchanged.
Edited(line) ==
  LET n == Len(line)
      pairs == {2 * i - 1 : i \in 1 .. n \div 2}
  IN  {line}
      \cup {[line EXCEPT ![i] = a] : i \in 1 .. n, a \in Arguments}
      \cup {RemoveAt(line, i) : i \in 1 .. n}
      \cup {InsertAt(line, i, line[i]) : i \in 1 .. n}
      \cup {SubSeq(line, 1, i - 1) \o SubSeq(line, i + 2, n) : i \in pairs}
      \cup {line \o SubSeq(line, i, i + 1) : i \in pairs}
      \cup {SubSeq(line, i, n) \o SubSeq(line, 1, i - 1) : i \in pairs}

\* A line without a plugin has no pipeline; it may come with the work all the same.
MCLines ==
  LET full == Line(TRUE, "debug", 1)
  IN  Edited(full) \cup Edited(SubSeq(full, 3, 12)) \cup Edited(SubSeq(full, 5, 12))

Spec == InitWith(MCDocuments, MCHosts, MCLines, Shipped, Installed) /\ [][Next]_vars

=============================================================================
