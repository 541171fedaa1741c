---------------------------- MODULE Directories ----------------------------
(***************************************************************************)
(* What GNU Make knows of directories without asking again (dir.c), and    *)
(* the search paths of the vpath directive and the variable VPATH          *)
(* (vpath.c).                                                              *)
(*                                                                         *)
(* A directory is read once and believed until a command has finished:     *)
(* command_count counts those, and each entry of the cache bears the count *)
(* it was read at.  It is read only as far as somebody asked, so its       *)
(* stream may be open while recipes change it; what such a stream gives    *)
(* (the names of the moment it was opened, or those there now) is the file *)
(* system's choice.  Several names may be one directory.                   *)
(*                                                                         *)
(* The operators take and return the state c:                              *)
(*    disk       the pairs <<directory, name in it>> that exist            *)
(*    fs         what the file system is: alias, unreadable, late          *)
(*    count      command_count                                             *)
(*    named      the table `directories', by name                          *)
(*    contents   the table `directory_contents', by directory              *)
(*    open       open_directories                                          *)
(* A name is a sequence of tokens, each standing for one character.  Left  *)
(* out: archive members, the root directory, empty directories.            *)
(***************************************************************************)
EXTENDS Naturals, Sequences, FiniteSets, SequencesExt

CONSTANTS MaxOpen,   \* MAX_OPEN_DIRECTORIES
          Order      \* the names there may be, as readdir would order them

Here == <<".">>

\* strrchr (name, '/')
Slash(n) == LET at == {i \in DOMAIN n : n[i] = "/"}
            IN IF at = {} THEN 0 ELSE CHOOSE i \in at : \A j \in at : j <= i
Directory(n) == IF Slash(n) = 0 THEN Here ELSE SubSeq(n, 1, Slash(n) - 1)
Within(n) == SubSeq(n, Slash(n) + 1, Len(n))

(***************************************************************************)
(* The file system                                                         *)
(***************************************************************************)
Real(c, d) == IF d \in DOMAIN c.fs.alias THEN c.fs.alias[d] ELSE d
IsDirectory(c, d) == d = Here \/ \E f \in c.disk : f[1] = Real(c, d)
Stat(c, n) == <<Real(c, Directory(n)), Within(n)>> \in c.disk
Entries(c, dir) == {f[2] : f \in {g \in c.disk : g[1] = dir}}

(***************************************************************************)
(* The cache                                                               *)
(***************************************************************************)
Nowhere == <<>>        \* dir->contents = NULL

Unread == [counter |-> 0, table |-> FALSE, seen |-> {}, imposs |-> {},
           stream |-> FALSE, at |-> 0, snap |-> {}]

NoCache(disk, fs) ==
    [disk |-> disk, fs |-> fs, count |-> 1, named |-> << >>, contents |-> << >>, open |-> 0]

Replaced(f, x, v) == [y \in DOMAIN f \cup {x} |-> IF y = x THEN v ELSE f[y]]

ContentsOf(c, dir) == IF dir \in DOMAIN c.contents THEN c.contents[dir] ELSE Unread
SetContents(c, dir, dc) == [c EXCEPT !.contents = Replaced(@, dir, dc)]

ClearDirectoryContents(c, dir) ==
    [SetContents(c, dir, Unread) EXCEPT !.open = IF ContentsOf(c, dir).stream THEN @ - 1 ELSE @]

\* what the stream of dir has still to give, in order
ToCome(c, dir) ==
    LET dc == c.contents[dir]
    IN SelectSeq(SubSeq(Order, dc.at + 1, Len(Order)),
                 LAMBDA x : x \in (IF c.fs.late THEN Entries(c, dir) ELSE dc.snap))

Learned(c, dir, names) == [c EXCEPT !.contents[dir].seen = @ \cup names,
                                    !.contents[dir].imposs = @ \ names]

\* the loop over readdir: up to the name asked for, which is the i-th to come
ReadUpTo(c, dir, name, rest, i) ==
    [c |-> [Learned(c, dir, Range(SubSeq(rest, 1, i))) EXCEPT
              !.contents[dir].at = SelectInSeq(Order, LAMBDA x : x = name)],
     yes |-> TRUE]

\* or to the end, where the stream is closed
ReadAll(c, dir, rest) ==
    [c |-> [Learned(c, dir, Range(rest)) EXCEPT !.contents[dir].stream = FALSE, !.open = @ - 1],
     yes |-> FALSE]

ReadRest(c, dir, name, rest) ==
    IF name \in Range(rest)
    THEN ReadUpTo(c, dir, name, rest, SelectInSeq(rest, LAMBDA x : x = name))
    ELSE ReadAll(c, dir, rest)

\* the name "" asks whether the directory exists
DirContentsFileExistsP(c, dir, name) ==
    LET dc == ContentsOf(c, dir)
        told(b) == [c |-> c, yes |-> b]
    IN IF dir = Nowhere \/ ~dc.table THEN told(FALSE)
       ELSE IF name = <<>> \/ name \in dc.seen THEN told(TRUE)
       ELSE IF name \in dc.imposs \/ ~dc.stream THEN told(FALSE)
       ELSE ReadRest(c, dir, name, ToCome(c, dir))

\* with too many streams open the new one is read to its end at once
NotTooMany(c, dir) == IF c.open = MaxOpen THEN ReadAll(c, dir, ToCome(c, dir)).c ELSE c

Opened(c, dir) ==
    LET dc == [Unread EXCEPT !.counter = c.count]
    IN IF dir \in c.fs.unreadable THEN SetContents(c, dir, dc)
       ELSE NotTooMany([SetContents(c, dir, [dc EXCEPT !.table = TRUE, !.stream = TRUE,
                                                       !.snap = Entries(c, dir)])
                          EXCEPT !.open = @ + 1], dir)

Reseeded(c, dir) ==
    IF dir = Nowhere \/ ContentsOf(c, dir).counter = c.count THEN c
    ELSE Opened(IF ContentsOf(c, dir).counter = 0 THEN c ELSE ClearDirectoryContents(c, dir), dir)

\* an entry is good as long as no command has finished since
Good(c, d) ==
    /\ d \in DOMAIN c.named
    /\ c.count = IF c.named[d].contents = Nowhere THEN c.named[d].counter
                 ELSE c.contents[c.named[d].contents].counter

Looked(c, d, dir) ==
    Reseeded([c EXCEPT !.named = Replaced(@, d, [counter |-> c.count, contents |-> dir])], dir)

Cleared(c, d) == IF d \in DOMAIN c.named /\ c.named[d].contents # Nowhere
                 THEN ClearDirectoryContents(c, c.named[d].contents) ELSE c

FindDirectory_Kept(c, d) ==  \* (mutant) an entry is good for ever
    IF d \in DOMAIN c.named THEN c
    ELSE Looked(c, d, IF IsDirectory(c, d) THEN Real(c, d) ELSE Nowhere)

FindDirectory(c, d) ==
    IF Good(c, d) THEN c
    ELSE Looked(Cleared(c, d), d, IF IsDirectory(c, d) THEN Real(c, d) ELSE Nowhere)

Ask(c, d, name) == DirContentsFileExistsP(c, c.named[d].contents, name)
DirFileExistsP(c, d, name) == Ask(FindDirectory(c, d), d, name)
FileExistsP(c, n) == DirFileExistsP(c, Directory(n), Within(n))

\* A directory that does not exist is given contents of its own, whose counter
\* is 0: the next search for it looks again, and the mark is gone.
Marked(c, d, name) ==
    LET dir == c.named[d].contents
    IN IF dir = Nowhere THEN [c EXCEPT !.named[d].counter = 0]
       ELSE [c EXCEPT !.contents[dir].table = TRUE, !.contents[dir].seen = @ \ {name},
                      !.contents[dir].imposs = @ \cup {name}]
FileImpossible(c, n) == Marked(FindDirectory(c, Directory(n)), Directory(n), Within(n))

IsMarked(c, d, name) ==
    LET dir == c.named[d].contents
    IN [c |-> c, yes |-> dir # Nowhere /\ name \in c.contents[dir].imposs]
FileImpossibleP(c, n) == IsMarked(FindDirectory(c, Directory(n)), Directory(n), Within(n))

(***************************************************************************)
(* Search paths.  A directive has a pattern or none, <<p>> or <<>>, and    *)
(* directories or none, <<ds>> or <<>>.                                    *)
(***************************************************************************)
PatternMatches(p, n) ==
    IF ~p.percent THEN n = p.pre
    ELSE /\ Len(n) >= Len(p.pre) + Len(p.suf)
         /\ IsPrefix(p.pre, n) /\ IsSuffix(p.suf, n)

\* one slash at the end is dropped, and then "."
Entry(d) == IF Len(d) > 1 /\ Last(d) = "/" THEN Front(d) ELSE d
SearchPath(ds) == SelectSeq([i \in DOMAIN ds |-> Entry(ds[i])], LAMBDA d : d # Here)

Removes(v, p) == v.pattern = <<>> \/ v.pattern = <<p>>

\* the new entry is at the head of the chain
ConstructVpathList(vpaths, v) ==
    IF v.dirs = <<>> THEN SelectSeq(vpaths, LAMBDA e : ~Removes(v, e.pattern))
    ELSE IF SearchPath(v.dirs[1]) = <<>> THEN vpaths
    ELSE <<[pattern |-> v.pattern[1], path |-> SearchPath(v.dirs[1])]>> \o vpaths

\* dir_name: the directories of a path are looked at when it is made
Entered(c, v) ==
    IF v.dirs = <<>> THEN c ELSE FoldLeft(FindDirectory, c, SearchPath(v.dirs[1]))

Everything == [pre |-> <<>>, suf |-> <<>>, percent |-> TRUE]
General(dirs) == [pattern |-> <<Everything>>, dirs |-> <<dirs>>]

\* the chain in the order of the makefile, and the value of VPATH last
BuildVpathLists(vpaths, dirs) ==
    Reverse(vpaths) \o ConstructVpathList(<<>>, General(dirs))

\* One entry of a path.  What a makefile mentions need not exist, but what is
\* found in the cache is looked for on disk as well.
OnDiskToo(q, name) == [c |-> q.c, name |-> IF q.yes /\ Stat(q.c, name) THEN name ELSE <<>>]

TryEntry(acc, name, known, targets, n) ==
    IF acc.name # <<>> THEN acc
    ELSE IF name \in known /\ (n \notin targets \/ name \in targets)
    THEN [acc EXCEPT !.name = name]
    ELSE OnDiskToo(FileExistsP(acc.c, name), name)

SelectiveVpathSearch(acc, v, known, targets, n) ==
    FoldLeft(LAMBDA a, d : TryEntry(a, d \o <<"/">> \o n, known, targets, n), acc, v.path)

VpathSearch(c, vpaths, known, targets, n) ==
    FoldLeft(LAMBDA a, v : IF PatternMatches(v.pattern, n)
                           THEN SelectiveVpathSearch(a, v, known, targets, n) ELSE a,
             [c |-> c, name |-> <<>>], IF n[1] = "/" THEN <<>> ELSE vpaths)
=============================================================================
