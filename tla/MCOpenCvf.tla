----------------------------- MODULE MCOpenCvf -----------------------------
(* Files and hosts for OpenCvf: volumes of every format with headers at    *)
(* their limits, and hosts whose chains take every form.                   *)
EXTENDS OpenCvf, TLC

\* Headers of DoubleSpace and DriveSpace volumes, from a small one.
Small == [flag |-> 0, spc |-> 16, dcluster |-> 8, mdfat |-> 0, bootblock |-> 3, reserved |-> 1,
          rootdir |-> 2, entries |-> 512, total |-> 3000, fatsize |-> 1, signature |-> 12,
          bits62 |-> 40]
Large == [Small EXCEPT !.mdfat = 1, !.bootblock = 80, !.rootdir = 17, !.total = 160000]
Headers ==
  {Small, Large, [Small EXCEPT !.signature = 0], [Small EXCEPT !.signature = 32],
   [Small EXCEPT !.flag = 3], [Small EXCEPT !.flag = 3, !.spc = 64, !.dcluster = 0],
   [Large EXCEPT !.flag = 3, !.spc = 64], [Large EXCEPT !.flag = 2, !.signature = 16],
   [Large EXCEPT !.bootblock = 1000, !.rootdir = 400, !.signature = 16, !.total = 2000000],
   [Small EXCEPT !.flag = 2, !.total = 20000]}
Dbl(h, mdr) == [kind |-> "dbl", header |-> h, mdr |-> mdr]

\* Headers of Stacker volumes.
Stacker == [version |-> 300, sectors |-> 21, bootblock |-> 1, amap |-> 3, fat |-> 4, data |-> 23,
            spc |-> 8, entries |-> 16, fats |-> 2, fatsize |-> 3, reserved |-> 1, total |-> 8000]
StacHeaders ==
  {Stacker, [Stacker EXCEPT !.version = 410, !.data = 24], [Stacker EXCEPT !.total = 20],
   [Stacker EXCEPT !.total = 8176], [Stacker EXCEPT !.total = 8300],
   [Stacker EXCEPT !.sectors = 30], [Stacker EXCEPT !.sectors = 24], [Stacker EXCEPT !.sectors = 0],
   [Stacker EXCEPT !.fatsize = 18, !.fats = 1, !.data = 59, !.total = 36000],
   [Stacker EXCEPT !.fatsize = 255, !.data = 1535, !.total = 600000]}
StacImage(h) == [kind |-> "stac", header |-> h]

One == {1} \X BOOLEAN \X {""}
Both == Procs \X BOOLEAN \X {""}
NoChain == [c \in HostClusters |-> 0]
Plain(access, len, image, uses) ==
  [access |-> access, len |-> len, images |-> (0 :> image), root |-> <<>>, fat |-> NoChain,
   uses |-> uses]

\* Files that are volumes, that are not, and that cannot be opened.
PlainFiles(f) ==
  \/ \E h \in Headers, m \in SUBSET {0, 1} :
       LET len == IF h.bootblock < 23 THEN 23 ELSE 2001
       IN f = Plain("write", len, Dbl(h, {len - x : x \in m}), One)
  \/ \E h \in StacHeaders : f = Plain("write", 23, StacImage(h), IF h = Stacker THEN Both ELSE One)
  \/ \E access \in {"read", "none"} : f = Plain(access, 23, Dbl(Small, {22}), Both)
  \/ f = Plain("write", 23, [kind |-> "odd"], One)

\* Every chain from cluster 2 on.
Along(g, n) == LET w[k \in 0 .. n] == IF k = 0 THEN 2
                                      ELSE IF w[k - 1] \in HostClusters THEN g[w[k - 1]] ELSE 0
               IN w[n]
Chains == {g \in [HostClusters -> {-1, 0, 9} \cup HostClusters] :
             \A c \in HostClusters : g[c] = 0 \/ \E n \in 0 .. 3 : Along(g, n) = c}
Named(n, e, start, size) == [name |-> n, ext |-> e, start |-> start, size |-> size]
Host(access, images, root, g, uses) ==
  [access |-> access, len |-> 17, images |-> (0 :> [kind |-> "host"]) @@ images,
   root |-> root, fat |-> g, uses |-> uses]

ChainedFiles(f) ==
  \E g \in Chains, size \in {4, 7} :
    f = Host("read", 9 :> Dbl(Small, {6}), <<Named("DRVSPACE", "000", 2, size)>>, g, One)

\* Several names in the root directory, with good and bad chains.
Roots == {<<Named("DRVSPACE", "000", 2, 4), Named("STACVOL", "001", 4, 4)>>,
          <<Named("COMMAND", "COM", 2, 4), Named("STACVOL", "DSK", 4, 4)>>,
          <<Named("DBLSPACE", "BIN", 2, 4), Named("DBLSPACE", "000", 0, 0)>>,
          <<Named("DRVSPACE", "001", 0, 4), Named("DBLSPACE", "001", 2, 4)>>}
RootFiles(f) ==
  \E root \in Roots, g \in {[NoChain EXCEPT ![2] = 3, ![3] = -1, ![4] = 5, ![5] = -1],
                            [NoChain EXCEPT ![2] = 2, ![4] = 5, ![5] = -1]} :
    f = Host("write", (9 :> Dbl(Small, {3})) @@ (13 :> StacImage([Stacker EXCEPT !.sectors = 4])),
             root, g, One \cup {<<1, FALSE, "001">>, <<2, TRUE, "">>})

AllFiles(f) == PlainFiles(f) \/ ChainedFiles(f) \/ RootFiles(f)
============================================================================
