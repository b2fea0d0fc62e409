---------------------------- MODULE MCVfsRouter ----------------------------
(* An instance of VfsRouter for TLC: two threads that ask for every kind   *)
(* of path, with slashes where they do not matter.                         *)
EXTENDS VfsRouter

MCRootfs == <<"", "data", "com.vmgo.app", "root">>
Plain ==
  {<<"", "">>, <<"", "system", "vendor", "x">>, <<"", "vendor", "x">>, <<"", "system", "x">>,
   <<"", "system", "vendor">>, <<"", "data", "com.vmgo.app">>, <<"", "dev", "ashmem">>,
   <<"", "dev", "null">>, <<"", "proc", "x">>, <<"", "x">>, <<"x">>, MCRootfs \o <<"vendor", "x">>}

(* A path with a slash more behind its n-th name.                          *)
Slashed(path, n) == SubSeq(path, 1, n) \o <<"">> \o SubSeq(path, n + 1, Len(path))
MCPaths == Plain \cup {Slashed(path, Len(path)) : path \in Plain}
                 \cup {Slashed(Slashed(path, 1), 1) : path \in Plain} \cup {<<"">>}

MCFiles == {MCRootfs \o <<"vendor", "x">>, MCRootfs \o <<"system", "x">>}
MCHost  == {<<"", "system", "vendor", "x">>, <<"", "system", "x">>}
=============================================================================
