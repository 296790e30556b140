------------------------------- MODULE FilePath ------------------------------
(***************************************************************************)
(* base::FilePath (src/base/file_path.cc), as the builds for POSIX have    *)
(* it: no drive letters, "/" is the only separator.  A path is a sequence  *)
(* of characters, strings of length one; positions count from 1 and 0 is   *)
(* npos.  A path is a value: a behaviour is one call on one of all the     *)
(* paths, those that other calls return among them.                        *)
(***************************************************************************)
EXTENDS Naturals, SequencesExt, FiniteSetsExt

CONSTANTS Paths,       \* paths to start from
          Components,  \* arguments of Append and AppendRelativePath
          Extensions   \* arguments of ReplaceExtension and its siblings

VARIABLES path,    \* path_
          before,  \* path_ before the call
          fn, arg  \* the call, or "none"

vars == <<path, before, fn, arg>>

Slash == "/"
Dot == "."
Nul == "NUL"
kCurrentDirectory == <<Dot>>
kParentDirectory == <<Dot, Dot>>

kCommonDoubleExtensions == {<<"g", "z">>, <<"z">>, <<"b", "z", "2">>}

Lower(s) == [i \in DOMAIN s |-> IF s[i] = "Z" THEN "z" ELSE s[i]]

\* rfind: the last position of c in s not after i.
LastOf(s, c, i) == Max({0} \cup {j \in 1..i : s[j] = c})
Take(s, n) == SubSeq(s, 1, n)
Drop(s, n) == SubSeq(s, n + 1, Len(s))

FromStringWhole(s) == s

\* The constructor ends a path at its first NUL.
FromString(s) == IF Contains(s, Nul) THEN Take(s, SelectInSeq(s, LAMBDA c : c = Nul) - 1) ELSE s

IsPathAbsolute(s) == s # <<>> /\ s[1] = Slash
AreAllSeparators(s) == \A i \in DOMAIN s : s[i] = Slash

-----------------------------------------------------------------------------
\* One leading separator stays, or two if there is nothing else.
StripTrailingSeparators(s) ==
    IF s = <<Slash, Slash>> \/ s = <<>> THEN s
    ELSE Take(s, Max({1} \cup {i \in DOMAIN s : s[i] # Slash}))

DirName(s) ==
    LET p == StripTrailingSeparators(s)
        l == LastOf(p, Slash, Len(p))
        cut == IF l = 0 THEN 0 ELSE IF l = 1 THEN 1
               ELSE IF l = 2 /\ p[1] = Slash THEN 2 ELSE l - 1
        dir == StripTrailingSeparators(Take(p, cut))
    IN  IF dir = <<>> THEN kCurrentDirectory ELSE dir

BaseNameUnstripped(s) == LET l == LastOf(s, Slash, Len(s))
                         IN  IF l \in 1..Len(s) - 1 THEN Drop(s, l) ELSE s

BaseName(s) == LET p == StripTrailingSeparators(s)
                   l == LastOf(p, Slash, Len(p))
               IN  IF l \in 1..Len(p) - 1 THEN Drop(p, l) ELSE p

\* The path, its DirName, that one's DirName...: more of them than the loop of
\* GetComponents goes through, which ends at the first that is its own DirName.
Ancestors(s) == FoldLeft(LAMBDA up, n : Append(up, DirName(Last(up))), <<s>>,
                         [n \in 1..Len(s) + 1 |-> n])
Roots(up) == {n \in 1..Len(up) - 1 : up[n] = up[n + 1]}

\* The names below the root, which is up[top], from the top down.
ComponentsOf(root, names) ==
    (IF root \in {<<>>, kCurrentDirectory} THEN <<>> ELSE <<root>>)
    \o SelectSeq(names, LAMBDA n : ~AreAllSeparators(n))
NamesOf(up, top) ==
    ComponentsOf(BaseName(up[top]), [i \in 1..top - 1 |-> BaseName(up[top - i])])
Climbed(up) == NamesOf(up, Min(Roots(up)))

GetComponents(s) == IF s = <<>> THEN <<>> ELSE Climbed(Ancestors(s))

ReferencesParent(s) == Contains(GetComponents(s), kParentDirectory)

AppendPath(s, c) ==
    LET appended == FromString(c)
        p == StripTrailingSeparators(s)
        glue == IF appended # <<>> /\ p # <<>> /\ Last(p) # Slash THEN <<Slash>> ELSE <<>>
    IN  IF s = kCurrentDirectory THEN appended ELSE p \o glue \o appended

IsParentOfDeep(parent, child) == /\ Len(parent) + 1 < Len(child) /\ parent # <<>>
                                 /\ IsPrefix(parent, child)
IsParentOf(parent, child) == /\ Len(parent) < Len(child) /\ parent # <<>>
                             /\ IsPrefix(parent, child)

IsParent(s, child) == IsParentOf(GetComponents(s), GetComponents(child))

AppendRelativePathShort(s, child) ==
    FoldLeft(AppendPath, <<>>, Drop(GetComponents(child), Len(GetComponents(s)) + 1))

\* What is appended to an empty path; only for a child of s.
AppendRelativePath(s, child) ==
    FoldLeft(AppendPath, <<>>, Drop(GetComponents(child), Len(GetComponents(s))))

-----------------------------------------------------------------------------
ExtensionSeparatorPositionAcross(s) ==
    LET last == LastOf(s, Dot, Len(s))
        penultimate == LastOf(s, Dot, last - 1)
        double == Lower(Drop(s, last)) \in kCommonDoubleExtensions /\ last - penultimate \in 2..5
    IN  IF s \in {kCurrentDirectory, kParentDirectory} THEN 0
        ELSE IF last > 1 /\ penultimate > 0 /\ double THEN penultimate ELSE last

ExtensionSeparatorPosition(s) ==
    LET last == LastOf(s, Dot, Len(s))
        penultimate == LastOf(s, Dot, last - 1)
        double == /\ Lower(Drop(s, last)) \in kCommonDoubleExtensions
                  /\ penultimate > LastOf(s, Slash, last - 1)
                  /\ last - penultimate \in 2..5
    IN  IF s \in {kCurrentDirectory, kParentDirectory} THEN 0
        ELSE IF last <= 1 THEN last
        ELSE IF double THEN penultimate ELSE last

Extension(s) == LET base == BaseName(s)
                    dot == ExtensionSeparatorPosition(base)
                IN  IF dot = 0 THEN <<>> ELSE Drop(base, dot - 1)

RemoveExtension(s) == LET dot == ExtensionSeparatorPosition(s)
                      IN  IF Extension(s) = <<>> \/ dot = 0 THEN s ELSE FromString(Take(s, dot - 1))

\* Paths that have no extension and can get none.
HasNoName(s) == s = <<>> \/ BaseName(s) \in {<<>>, kCurrentDirectory, kParentDirectory}

InsertBeforeExtension(s, suffix) ==
    IF suffix = <<>> THEN FromString(s)
    ELSE IF HasNoName(s) THEN <<>>
    ELSE FromString(RemoveExtension(s) \o suffix \o Extension(s))

ReplaceExtension(s, extension) ==
    LET dot == IF extension # <<>> /\ extension[1] = Dot THEN <<>> ELSE <<Dot>>
    IN  IF HasNoName(s) THEN <<>>
        ELSE IF extension \in {<<>>, <<Dot>>} THEN RemoveExtension(s)
        ELSE FromString(RemoveExtension(s) \o dot \o extension)

MatchesExtension(s, extension) == Lower(Extension(s)) = Lower(extension)

-----------------------------------------------------------------------------
Init == path \in {FromString(s) : s \in Paths} /\ before = path /\ fn = "none" /\ arg = <<>>

Call(f, a, result) == /\ before' = path /\ fn' = f /\ arg' = a /\ path' = result

\* DCHECK: what is appended is not absolute.
CallAppend == \E c \in Components : ~IsPathAbsolute(c) /\ Call("Append", FromString(c), AppendPath(path, c))
CallDirName == Call("DirName", <<>>, DirName(path))
CallBaseName == Call("BaseName", <<>>, BaseName(path))
CallStrip == Call("Strip", <<>>, StripTrailingSeparators(path))
CallRemove == Call("RemoveExtension", <<>>, RemoveExtension(path))
CallInsert == \E e \in Extensions : Call("Insert", e, InsertBeforeExtension(path, e))
CallReplace == \E e \in Extensions : Call("Replace", e, ReplaceExtension(path, e))
CallRelative == \E parent \in Components :
                  /\ IsParent(parent, path)
                  /\ Call("Relative", parent, AppendRelativePath(parent, path))

Next == /\ fn = "none"
        /\ \/ CallAppend \/ CallDirName \/ CallBaseName \/ CallStrip
           \/ CallRemove \/ CallInsert \/ CallReplace \/ CallRelative

Spec == Init /\ [][Next]_vars

-----------------------------------------------------------------------------
\* Two paths that name the same file: without their "." components they are equal.
Names(s) == SelectSeq(GetComponents(s), LAMBDA n : n # kCurrentDirectory)

TypeOK == ~Contains(path, Nul)

\* A path is its directory and its base name.
SplitsWhole ==
    ~AreAllSeparators(path) =>
      Names(AppendPath(DirName(path), BaseName(path))) = Names(path)

\* Appending is appending the components, and a relative path with a name in it leads
\* below the path it is appended to.  ("./" is a component, but not of "./a".)
AppendsBelow ==
    fn = "Append" =>
      /\ before # <<>> => Names(path) = Names(before) \o Names(arg)
      /\ Names(before) # <<>> /\ GetComponents(arg) # <<>> => IsParent(before, path)

\* The relative path of a child, appended to the parent, is the child again.
RelativeLeadsBack ==
    fn = "Relative" => /\ Names(AppendPath(arg, path)) = Names(before)
                       /\ ReferencesParent(path) => ReferencesParent(before)

\* The calls on extensions agree on where the extension starts and leave the directory
\* alone: RemoveExtension looks for it in the whole path, Extension in the base name.  A
\* trailing separator is the exception, RemoveExtension then takes "foo.tar.gz/" apart at
\* the last period.
ExtensionsAgree ==
    LET base == BaseName(before)
        front == Take(before, Len(before) - Len(Extension(before)))
        put == IF fn = "Insert" THEN arg \o Extension(before)
               ELSE IF fn = "RemoveExtension" \/ arg \in {<<>>, <<Dot>>} THEN <<>>
               ELSE IF arg[1] = Dot THEN arg ELSE <<Dot>> \o arg
    IN  /\ fn \in {"RemoveExtension", "Insert", "Replace"}
        /\ ~HasNoName(before) /\ Last(before) # Slash
        => /\ path = front \o put
           /\ fn = "Replace" /\ Lower(put) = <<Dot, "a">> => MatchesExtension(path, put)
=============================================================================
