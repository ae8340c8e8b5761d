----------------------------- MODULE PathRules ------------------------------
(***************************************************************************)
(* What the service and the client library make of relative paths and of   *)
(* task ids (src/udp_service.cpp, caller_client_cpp/src/file_utils.cpp; the*)
(* two have the same text).  A string is a sequence of characters, of which*)
(* five tell the rules apart; the state is a string that is typed.         *)
(***************************************************************************)
EXTENDS Integers, Sequences, SequencesExt

CONSTANTS
  MaxLength,  \* bound: the length of the strings
  Roots       \* shared roots

Chars == {"a", ".", "/", "\\", ":"}

(* These, and what the code and the roots add to them.                     *)
Letters == Chars \cup {"_", "d", "j", "q", "r", "s", "t"}

ASSUME LengthAssumption == MaxLength \in Nat

(* The code takes "\" for a slash, and the system for a letter.            *)
ASSUME RootAssumption ==
  Roots \subseteq Seq(Letters) /\ \A r \in Roots : \A i \in DOMAIN r : r[i] # "\\"

VARIABLE typed

Init == typed = <<>>

Type(c) == Len(typed) < MaxLength /\ typed' = Append(typed, c)

Next == \E c \in Chars : Type(c)

Spec == Init /\ [][Next]_typed

-----------------------------------------------------------------------------
(* The functions of the code.                                              *)

Separator(c) == c \in {"/", "\\"}

NormalizeSlashes(v) == ReplaceAll(v, "\\", "/")

From(v, i) == SubSeq(v, i, Len(v))

(* Variant: it is the dots alone that go.                                  *)
DropEveryDot(v) ==
  LET i == SelectInSeq(v, LAMBDA c : c # ".")
  IN  IF i = 0 THEN <<>> ELSE From(v, i)

(* While the text begins with "./" it loses that.                          *)
DropDots(v) ==
  LET pairs == {n \in 0 .. Len(v) \div 2 :
                  \A i \in 1 .. n : v[2 * i - 1] = "." /\ v[2 * i] = "/"}
  IN  From(v, 2 * Max(pairs) + 1)

(* While it begins with "/" it loses that.                                 *)
DropSlashes(v) ==
  LET i == SelectInSeq(v, LAMBDA c : c # "/")
  IN  IF i = 0 THEN <<>> ELSE From(v, i)

IsAbsolutePath(v) ==
  (Len(v) > 1 /\ v[2] = ":") \/ (v # <<>> /\ Separator(v[1]))

(* Variant: ".." at the end is not looked for.                             *)
ParentInside(v) == v = <<".", ".">> \/ <<".", ".", "/">> \in SubSeqs(v)

ContainsParentTraversal(v) ==
  \/ v = <<".", ".">>
  \/ {<<".", ".", "/">>, <<"/", ".", ".">>} \cap SubSeqs(v) # {}

(* The empty string stands for a path that is refused.                     *)
NormalizeRelativePath(v) ==
  LET w == DropSlashes(DropDots(NormalizeSlashes(v)))
  IN  IF w = <<>> \/ IsAbsolutePath(w) \/ ContainsParentTraversal(w) THEN <<>> ELSE w

(* Variant: whether there is a separator already is not looked at.         *)
JoinBare(left, right) == left \o right

JoinPath(left, right) ==
  IF left = <<>> THEN right
  ELSE IF right = <<>> THEN left
  ELSE IF Separator(Last(left)) THEN left \o right
  ELSE left \o <<"/">> \o right

ResolveSharedPath(root, path) == JoinPath(root, NormalizeSlashes(path))

ParentPath(v) ==
  LET i == SelectLastInSeq(v, Separator) IN IF i = 0 THEN <<>> ELSE SubSeq(v, 1, i - 1)

(* Variant: the directory itself is not made.                              *)
DirectoriesAbove(file) ==
  LET dir == ParentPath(file)
  IN  {SubSeq(dir, 1, i) : i \in {n \in 2 .. Len(dir) : Separator(dir[n])}}

(* EnsureParentDirectory: the directories made, each after those above it. *)
DirectoriesMade(file) ==
  LET dir == ParentPath(file)
  IN  IF dir = <<>> THEN {}
      ELSE {SubSeq(dir, 1, i) : i \in {n \in 2 .. Len(dir) : Separator(dir[n])}} \cup {dir}

(* Variant: the whole string is kept.                                      *)
KeepName(v) == IF v = <<>> THEN <<"t">> ELSE v

(* SanitizeFileName; "_" is what the other characters become and "t" the   *)
(* name of the empty id.                                                   *)
SanitizeFileName(v) ==
  IF v = <<>> THEN <<"t">>
  ELSE [i \in DOMAIN v |-> IF v[i] \in {"a", "."} THEN v[i] ELSE "_"]

Json == <<".", "j">>

StateFilePath(task) == JoinPath(<<"q">>, JoinPath(<<"s">>, SanitizeFileName(task) \o Json))

(* The client's path for a request that is given none: below a date.       *)
BuildRequestRelPath(task) == <<"d", "/">> \o SanitizeFileName(task) \o Json

(* Variant: as for Windows.                                                *)
ToWindowsPath(v) == ReplaceAll(v, "/", "\\")

(* The client has its files opened by a name with slashes only.            *)
ToNativePath(v) == ReplaceAll(v, "\\", "/")

ClientSharedPath(root, path) == ToNativePath(JoinPath(root, NormalizeSlashes(path)))

-----------------------------------------------------------------------------
(* Paths as the operating system takes them: the names between slashes.    *)

(* Where the names of v begin.                                             *)
Begins(v) == {i \in DOMAIN v : v[i] # "/" /\ (i = 1 \/ v[i - 1] = "/")}

NameAt(v, i) ==
  LET ends == {n \in i .. Len(v) : v[n] = "/"}
  IN  SubSeq(v, i, IF ends = {} THEN Len(v) ELSE Min(ends) - 1)

(* The names on the way; "." leads nowhere.                                *)
Names(v) ==
  LET proper == {i \in Begins(v) : NameAt(v, i) # <<".">>}
  IN  [n \in 1 .. Cardinality(proper) |->
         NameAt(v, CHOOSE i \in proper : Cardinality({k \in proper : k <= i}) = n)]

-----------------------------------------------------------------------------
(* A path that is accepted stays below the directory it is resolved in: it *)
(* names neither a root nor a drive, and no ".." leads up from anywhere.   *)
StaysBelow ==
  LET p == NormalizeRelativePath(typed)
  IN  p # <<>> =>
        /\ p[1] # "/" /\ (Len(p) > 1 => p[2] # ":")
        /\ \A i \in Begins(p) : NameAt(p, i) # <<".", ".">>

(* Normalising takes "." and slashes away and no name.                     *)
FileKept ==
  LET p == NormalizeRelativePath(typed)
  IN  p # <<>> => Names(p) = Names(NormalizeSlashes(typed))

(* The client normalises a path and opens it below its root; the service   *)
(* normalises what it is sent, which may change it again, and opens it     *)
(* below its own.  Where both accept it they mean one file.                *)
SidesMeet ==
  LET p == NormalizeRelativePath(typed)
      q == NormalizeRelativePath(p)
  IN  q # <<>> => \A r \in Roots :
        Names(ClientSharedPath(r, p)) = Names(ResolveSharedPath(r, q))

(* What an accepted path is resolved to are the names of the root and then *)
(* its own, whether or not the root ends in a slash.                       *)
ResolvedBelowRoot ==
  LET p == NormalizeRelativePath(typed)
  IN  p # <<>> => \A r \in Roots :
        Names(ResolveSharedPath(r, p)) = Names(r) \o Names(p)

(* EnsureParentDirectory leaves out none of the directories a file is to   *)
(* be in, whatever its path; that it makes the outer ones first is not said.*)
ParentsExist ==
  LET p == NormalizeRelativePath(typed)
  IN  p # <<>> => \A r \in Roots :
        LET file == ResolveSharedPath(r, p)
        IN  \A i \in DOMAIN file :
              /\ i > 1 /\ file[i] = "/" /\ Names(SubSeq(file, 1, i - 1)) # <<>>
              => \E d \in DirectoriesMade(file) : Names(d) = Names(SubSeq(file, 1, i - 1))

(* Whatever a task is called, its state file is a file in state/.          *)
StateFileInPlace ==
  LET names == Names(StateFilePath(typed))
  IN  Len(names) = 3 /\ SubSeq(names, 1, 2) = <<<<"q">>, <<"s">>>>

(* The path the client makes up for a request keeps the rules for paths,   *)
(* whatever the task is called, unless its id begins with two dots or is   *)
(* one: those ids make paths with a "/.." in them, which are refused.      *)
DefaultAccepted ==
  LET p == BuildRequestRelPath(typed)
  IN  IF typed = <<".">> \/ IsPrefix(<<".", ".">>, typed)
      THEN NormalizeRelativePath(p) = <<>>
      ELSE NormalizeRelativePath(p) = p

=============================================================================
