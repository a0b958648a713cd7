--------------------------- MODULE MCFileSystems ----------------------------
(***************************************************************************)
(* The paths d, d/f, d/s, d/s/f, d.x and d.x/f: a directory with a file    *)
(* and a subdirectory, and a sibling whose name begins with its name and   *)
(* sorts before its slash.                                                 *)
(***************************************************************************)
EXTENDS FileSystems

CONSTANTS c1, c2, d, df, ds, dsf, dx, dxf

MCPaths == {d, df, ds, dsf, dx, dxf}

MCParent == (d :> Root) @@ (df :> d) @@ (ds :> d) @@ (dsf :> ds) @@ (dx :> Root) @@ (dxf :> dx)

MCName == (d :> "d") @@ (df :> "f") @@ (ds :> "s") @@ (dsf :> "f") @@ (dx :> "d.x") @@ (dxf :> "f")

MCLengthens == {<<d, dx>>}

MCKeyOrder ==
    <<File(d), File(dx), Marker(dx), File(dxf), Marker(dxf), Marker(d), File(df), Marker(df),
      File(ds), Marker(ds), File(dsf), Marker(dsf)>>

\* A container with files of the content 11, 12, ..., and markers.
Holding(files, markers) ==
    [k \in {File(p) : p \in ToSet(files)} \cup {Marker(p) : p \in markers} |->
        IF k.dir THEN Nil ELSE 10 + SelectInSeq(files, LAMBDA p : p = k.path)]

TwoContainers(a, b) == (c1 :> a) @@ (c2 :> b)

MCStores ==
    [S3   |-> {TwoContainers(Holding(<<df, dsf, dxf>>, {}), None),
               TwoContainers(Holding(<<df>>, {d, ds}), NoObjects)},
     Flat |-> {TwoContainers(Holding(<<df, dsf, dxf>>, {}), None),
               TwoContainers(Holding(<<df, dx>>, {d, ds}), NoObjects)},
     HNS  |-> {TwoContainers(Holding(<<df, dsf>>, {d, ds, dx}), None),
               TwoContainers(NoObjects, NoObjects)}]

MCOptions ==
    [S3   |-> {[check |-> TRUE, create |-> TRUE, delete |-> TRUE],
               [check |-> FALSE, create |-> FALSE, delete |-> FALSE]},
     Flat |-> {None},
     HNS  |-> {None}]

Call(name, c, p) ==
    [op |-> name, at |-> [c |-> c, p |-> p], to |-> None, rec |-> FALSE, lax |-> FALSE, num |-> NoLimit]

Both(name, c, p, e, q) == [Call(name, c, p) EXCEPT !.to = [c |-> e, p |-> q]]

Deep(call) == [call EXCEPT !.rec = TRUE]

Lax(call) == [call EXCEPT !.lax = TRUE]

OnAll ==
    {Deep(Call("CreateDir", c1, ds)), Call("CreateDir", c1, ds), Deep(Call("CreateDir", c2, d)),
     Call("CreateDir", c2, Root),
     Call("DeleteDir", c1, d), Call("DeleteDir", c1, ds), Call("DeleteDir", c2, Root),
     Call("DeleteDirContents", c1, d), Lax(Call("DeleteDirContents", c1, dx)),
     Call("DeleteFile", c1, df), Call("loon_delete_file", c1, df),
     Both("Move", c1, df, c1, dxf), Both("CopyFile", c1, df, c1, dsf),
     Call("Write", c1, df), Call("Write", c1, dsf),
     Deep(Call("List", c1, d)), Call("List", c1, d), [Deep(Call("List", c1, Root)) EXCEPT !.num = 0]}

MCCalls ==
    [S3   |-> OnAll,
     Flat |-> OnAll \cup {Both("Move", c1, Root, c2, Root), Both("Move", c1, Root, c1, Root),
                          Call("DeleteFile", c1, dx)},
     HNS  |-> OnAll \cup {Both("Move", c1, ds, c1, dx), Both("Move", c1, df, c1, ds),
                          Both("Move", c1, Root, c2, Root)}]

=============================================================================
