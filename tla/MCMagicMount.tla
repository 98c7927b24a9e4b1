---------------------------- MODULE MCMagicMount ----------------------------
(* Two devices, with and without a partition for vendor, and every ordered *)
(* pair of modules out of a set that has each kind of entry at least once. *)
EXTENDS MagicMount, TLC

D == <<"dir", "">>
R == <<"reg", "stock">>
L == <<"lnk", "stock">>
S(names) == <<"system">> \o names

Common ==
  System :> D @@ S(<<"bin">>) :> D @@ S(<<"bin", "sh">>) :> R @@ S(<<"lib">>) :> D
  @@ S(<<"lib", "c">>) :> R @@ S(<<"etc">>) :> D @@ S(<<"etc", "h">>) :> R
  @@ S(<<"etc", "l">>) :> L @@ S(<<"app">>) :> D @@ S(<<"app", "A">>) :> D
  @@ S(<<"app", "A", "apk">>) :> R @@ S(<<"app", "A", "lib">>) :> D
  @@ S(<<"app", "A", "lib", "so">>) :> R

MCStocks ==
  {Common @@ S(<<"vendor">>) :> L @@ <<"vendor">> :> D @@ <<"vendor", "lib">> :> D
          @@ <<"vendor", "bin">> :> D @@ <<"vendor", "bin", "sh">> :> R
          @@ <<"vendor", "lib", "d">> :> R,
   Common @@ S(<<"vendor">>) :> D @@ S(<<"vendor", "lib">>) :> D
          @@ S(<<"vendor", "bin">>) :> D @@ S(<<"vendor", "bin", "sh">>) :> R
          @@ S(<<"vendor", "lib", "d">>) :> R}

\* A module from its files, which bring their directories along.
Mod(files, replace, name, skip) ==
  LET all == [q \in DOMAIN files |-> <<files[q], name>>]
      dirs == UNION {{SubSeq(q, 1, i) : i \in 1..(Len(q) - 1)} : q \in DOMAIN files}
              \cup replace \cup {System}
  IN  [files |-> all @@ [d \in dirs |-> D], replace |-> replace, skip |-> skip, prop |-> skip]

MCModules ==
  {Mod(S(<<"etc", "h">>) :> "reg", {}, "m1", FALSE),
   Mod(S(<<"etc", "h">>) :> "wht" @@ S(<<"app", "B", "apk">>) :> "reg", {}, "m2", FALSE),
   Mod(S(<<"app", "A", "lib", "new">>) :> "reg", {S(<<"app", "A">>)}, "m3", FALSE),
   Mod(S(<<"vendor", "lib", "d">>) :> "reg" @@ S(<<"vendor", "top">>) :> "reg", {}, "m4", FALSE),
   Mod(S(<<"app", "A">>) :> "wht" @@ S(<<"etc", "l">>) :> "reg"
       @@ S(<<"vendor">>) :> "wht", {}, "m5", FALSE),
   Mod(S(<<"bin", "su">>) :> "reg" @@ S(<<"top">>) :> "lnk", {}, "m6", FALSE),
   Mod(S(<<"app">>) :> "reg" @@ S(<<"etc", "h", "x">>) :> "reg", {}, "m7", FALSE),
   Mod(S(<<"bin", "magisk">>) :> "wht" @@ S(<<"vendor", "lib", "e">>) :> "lnk", {}, "m8", FALSE),
   Mod(S(<<"etc", "h">>) :> "reg", {}, "m9", TRUE)}

MCWord == {"system", "vendor", "bin", "lib", "lib64", "etc", "app", "sh", "c", "h", "l", "A", "B",
           "apk", "so", "new", "d", "e", "top", "x", "su", "magisk", Loader}
MCBinDir == <<"vendor", "bin">>
MCLists == {<<>>} \cup {<<a, b>> : a, b \in MCModules}
=============================================================================
