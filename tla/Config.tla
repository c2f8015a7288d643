------------------------------- MODULE Config -------------------------------
(* src/pkg/conf: the settings of an application, loaded from a main file and *)
(* the files it includes, with values from the environment.  Settings are a  *)
(* set of pairs <<path, value>>, a path being a sequence of keys; a list is  *)
(* one value.  A value <<"env", x>> in a file refers to the variable x.      *)
EXTENDS Integers, Sequences, SequencesExt

\* External: koanf merges maps and lets b replace everything else.
Merge(a, b) ==
    b \cup {x \in a : \A y \in b : ~IsPrefix(x[1], y[1]) /\ ~IsPrefix(y[1], x[1])}

IsSet(tree, path) == \E x \in tree : IsPrefix(path, x[1])
Get(tree, path) == {x[2] : x \in {y \in tree : y[1] = path}}

\* The env files beside the main file, in this order, each one setting its
\* variables over those of the process and of the files before.
TryLoadEnvFromFile(env, envFiles) ==
    FoldLeft(LAMBDA e, f : [x \in DOMAIN e |-> IF x \in DOMAIN f THEN f[x] ELSE e[x]],
             env, envFiles)

\* A variable that is not set reads as empty.
ParseEnv(tree, env) ==
    {IF x[2][1] = "env" THEN <<x[1], <<"lit", env[x[2][2]]>>>> ELSE x : x \in tree}

LoadFileWithEnv(tree, file, env) == Merge(tree, ParseEnv(file, env))

\* A configuration: its settings, its option of files to include, its local
\* path ("" for none) and whether loading it failed.  The first file of fs is
\* the main one; a file that does not exist is not in its domain.
Loaded(c, tree, includes) == [c EXCEPT !.tree = tree, !.includes = includes]
Failed(c) == [c EXCEPT !.err = TRUE]
includeFiles(tree) ==
    LET v == Get(tree, <<"includeFiles">>)
    IN  IF v = {} THEN <<>> ELSE (CHOOSE x \in v : TRUE)[2]

\* The includes that the main file names replace the ones of the options;
\* what an included file says of includes is not followed.
loadInternal(c, fs, env) ==
    IF c.localPath # "" /\ c.localPath \notin DOMAIN fs THEN Failed(c)
    ELSE LET main == IF c.localPath = "" THEN c.tree
                     ELSE LoadFileWithEnv(c.tree, fs[c.localPath], env)
             incl == IF IsSet(main, <<"includeFiles">>) THEN includeFiles(main) ELSE c.includes
         IN  IF \E i \in DOMAIN incl : incl[i] \notin DOMAIN fs THEN Failed(c)
             ELSE Loaded(c, FoldLeft(LAMBDA t, f : LoadFileWithEnv(t, fs[f], env), main, incl), incl)

Load(c, fs, env, envFiles) == loadInternal(c, fs, TryLoadEnvFromFile(env, envFiles))

\* Mutant: Reload loads over the settings there are.
MutantReload(c, fs, env, envFiles) == Load(c, fs, env, envFiles)

\* Reload drops the settings and loads again with the options of before.
Reload(c, fs, env, envFiles) == Load([c EXCEPT !.tree = {}], fs, env, envFiles)

\* New, and NewFromParse, which has no local file.
NewConfig(localPath, includes) ==
    [tree |-> {}, includes |-> includes, localPath |-> localPath, root |-> <<>>, err |-> FALSE]
NewFromParse(tree) == [NewConfig("", <<>>) EXCEPT !.tree = tree]

\* Sub: the settings below a path, none for a key without value; not for a
\* path that is not set or is a leaf.  The new node keeps the root of c.
SubTree(tree, path) ==
    {<<SubSeq(x[1], Len(path) + 1, Len(x[1])), x[2]>> : x \in {y \in tree : IsPrefix(path, y[1])}}

passRoot(c) == IF c.root = <<>> THEN <<c.tree>> ELSE c.root
SubOK(c, path) == path = <<>> \/ (IsSet(c.tree, path) /\ Get(c.tree, path) = {})
Sub(c, path) ==
    IF path = <<>> THEN c
    ELSE [c EXCEPT !.tree = SubTree(c.tree, path), !.root = passRoot(c)]
Root(c) == IF c.root = <<>> THEN c.tree ELSE c.root[1]

\* Join drops empty paths in front; one that follows adds an empty key.  It
\* panics if all are empty.
NoPath == <<"panic">>
Join(ps) ==
    LET named == {i \in DOMAIN ps : ps[i] # <<>>}
        kept == SelectSeq([i \in DOMAIN ps |-> <<i, IF ps[i] = <<>> THEN <<"">> ELSE ps[i]>>],
                          LAMBDA p : \E i \in named : i <= p[1])
    IN  IF named = {} THEN NoPath ELSE FlattenSeq([i \in DOMAIN kept |-> kept[i][2]])

\* Map visits the maps below a path, by key.
MapKeys(c, path) == {x[1][1] : x \in SubTree(c.tree, path)}
MapVisits(c, path) == [k \in MapKeys(c, path) |-> Sub(c, Join(<<path, <<k>>>>))]

\* Each visits the items of a list of maps: an item with a single key gets it
\* as root and, if the key holds a map, what is below it.
Each(items) ==
    [i \in DOMAIN items |->
       LET keys == {x[1][1] : x \in items[i]}
           root == IF \E k \in keys : keys = {k} THEN <<CHOOSE k \in keys : TRUE>> ELSE <<>>
       IN  IF root = <<>> THEN [root |-> root, tree |-> items[i]]
           ELSE [root |-> root,
                 tree |-> IF Get(items[i], root) # {} THEN items[i] ELSE SubTree(items[i], root)]]

---------------------------------------------------------------------------
(* What an application may rely on.  *)

\* After loading, every path has one value, no path is both a leaf and a map,
\* and a value comes from the last file that sets the path.
LastFileWins(c, fs, env, envFiles) ==
    LET l == Load(c, fs, env, envFiles)
        order == <<c.localPath>> \o l.includes
        vals  == TryLoadEnvFromFile(env, envFiles)
    IN  ~l.err /\ c.localPath # "" =>
          /\ \A x, y \in l.tree : x # y => ~IsPrefix(x[1], y[1])
          /\ \A x \in l.tree :
               \E i \in DOMAIN order :
                 /\ x \in ParseEnv(fs[order[i]], vals)
                 /\ \A j \in i + 1 .. Len(order) : x[1] \notin {y[1] : y \in fs[order[j]]}
          /\ ParseEnv(fs[Last(order)], vals) \subseteq l.tree

\* Reloading after the files have changed gives what a new configuration
\* would load, if the main file names its includes: a list that it named
\* before, and no longer names, stays in force.
ReloadIsFresh(c, fs1, fs2, env, envFiles) ==
    LET first == Load(c, fs1, env, envFiles)
        fresh == Load(c, fs2, env, envFiles)
        named == c.localPath \in DOMAIN fs2
                 /\ IsSet(fs2[c.localPath], <<"includeFiles">>)
        same  == first.includes = c.includes
    IN  c.localPath # "" /\ ~first.err /\ (named \/ same) =>
          LET again == Reload(first, fs2, env, envFiles)
          IN  again.err = fresh.err /\ (~fresh.err => again.tree = fresh.tree)

\* Reading through sub nodes is reading the joined path, unless the second is
\* empty: nothing is found at the path that Join makes then.  Every sub node
\* of a configuration has its settings as root.
SubReads(c, p, q) ==
    SubOK(c, p) =>
      /\ q # <<>> => Get(Sub(c, p).tree, q) = Get(c.tree, Join(<<p, q>>))
      /\ q = <<>> => ~IsSet(c.tree, Join(<<p, q>>))
      /\ Root(Sub(c, p)) = Root(c)
      /\ q # <<>> /\ SubOK(Sub(c, p), q) =>
                                /\ SubOK(c, Join(<<p, q>>))
                                /\ Sub(Sub(c, p), q).tree = Sub(c, Join(<<p, q>>)).tree
                                /\ Root(Sub(Sub(c, p), q)) = Root(c)
      /\ \A k \in MapKeys(c, p) : Get(MapVisits(c, p)[k].tree, q) = Get(c.tree, p \o <<k>> \o q)

\* An item of a list with a single key reads below that key as the item does.
EachReads(items, q) ==
    \A i \in DOMAIN items :
      LET v == Each(items)[i]
      IN  /\ v.root # <<>> /\ Get(items[i], v.root) = {} => Get(v.tree, q) = Get(items[i], v.root \o q)
          /\ v.root = <<>> => v.tree = items[i]
=============================================================================
