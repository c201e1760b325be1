-------------------------------- MODULE Split --------------------------------
(***************************************************************************)
(* Trees of splits (mod_tiling/split.c): how a rectangle is shared out     *)
(* among the regions of a tiling.                                          *)
(*                                                                         *)
(* A tree s is a function from nodes to records: the parent up, the        *)
(* halves tl and br (NIL for a leaf, which holds a region), the direction  *)
(* dir in which an inner node is split, the half "current" that was last   *)
(* active, the rectangle geom, the stored minimum min, and hint, the       *)
(* minimum the region of a leaf asks for.  A rectangle, and a minimum, has *)
(* one component per direction: x and w are geom.H.pos and geom.H.size.    *)
(*                                                                         *)
(* The status display (WSplitST), floating splits and unused space are     *)
(* left out: without them there are no maxima, max_w and max_h are         *)
(* INT_MAX everywhere.                                                     *)
(***************************************************************************)
EXTENDS Integers, FiniteSets, TLC
LOCAL INSTANCE FiniteSetsExt

NIL == 0
Dirs == {"H", "V"}
Primns == {"ANY", "TL", "BR", "NONE"}
Other(d) == IF d = "H" THEN "V" ELSE "H"
Greater(a, b) == IF a > b THEN a ELSE b
Lesser(a, b) == IF a < b THEN a ELSE b
Abs(a) == Greater(a, -a)
\* division in C rounds towards zero
Quot(a, b) == IF a >= 0 THEN a \div b ELSE -((-a) \div b)
PerDir(h, v) == [H |-> h, V |-> v]
Span(p, z) == [pos |-> p, size |-> z]
\* f itself, as a table: TLC would else evaluate f[x] anew at each use
Table(f) == f @@ <<>>

-----------------------------------------------------------------------------
(* The shape of a tree *)

IsLeaf(s, n) == s[n].tl = NIL
Leaves(s) == {n \in DOMAIN s : IsLeaf(s, n)}
Inner(s) == DOMAIN s \ Leaves(s)
Half(s, p, side) == IF side = "TL" THEN s[p].tl ELSE s[p].br
SideOf(s, n) == IF s[s[n].up].tl = n THEN "TL" ELSE "BR"
Sibling(s, n) == Half(s, s[n].up, IF SideOf(s, n) = "TL" THEN "BR" ELSE "TL")
split_find_root(s) == CHOOSE n \in DOMAIN s : s[n].up = NIL

\* n and the nodes above it
Path(s, n) ==
  LET above[k \in DOMAIN s] ==
        {k} \cup (IF s[k].up = NIL THEN {} ELSE above[s[k].up])
  IN above[n]
Subtree(s, top) ==
  LET below[k \in DOMAIN s] ==
        {k} \cup (IF IsLeaf(s, k) THEN {} ELSE below[s[k].tl] \cup below[s[k].br])
  IN below[top]

-----------------------------------------------------------------------------
(* Minima *)

MinFrom(s, n, mins) ==
  LET a == mins[s[n].tl]
      b == mins[s[n].br]
  IN [d \in Dirs |-> IF d = s[n].dir THEN a[d] + b[d] ELSE Greater(a[d], b[d])]

split_update_bounds(s, top) ==
  LET mins[n \in DOMAIN s] ==
        IF IsLeaf(s, n) THEN s[n].hint ELSE MinFrom(s, n, mins)
      sub == Subtree(s, top)
  IN Table([n \in DOMAIN s |-> IF n \in sub THEN [s[n] EXCEPT !.min = mins[n]] ELSE s[n]])

-----------------------------------------------------------------------------
(* Resizing, from the root to the leaves *)

adjust_sizes(tls, brs, nsize, sz, tlmin, brmin, primn) ==
  IF primn = "BR"
  THEN LET b == Greater(brs + nsize - sz, brmin)
           t == Greater(nsize - b, tlmin)
       IN <<t, Greater(nsize - t, brmin)>>
  ELSE LET want == IF primn = "TL" THEN tls + nsize - sz ELSE (tls * nsize) \div sz
           b == Greater(nsize - Greater(want, tlmin), brmin)
       IN <<Greater(nsize - b, tlmin), b>>

\* the size of the first half of p when p gets nsize in direction d, the new
\* one of p
TlSize(s, p, d, nsize, primn) ==
  LET old == s[p].dir
      tl == s[p].tl
      br == s[p].br
      tls == s[tl].geom[old].size
      brs == s[br].geom[old].size
      sz == tls + brs
      fit == IF sz > 2
             THEN adjust_sizes(tls, brs, nsize, sz, s[tl].min[d], s[br].min[d], primn)
             ELSE <<tls, brs>>
  IN CASE fit[1] + fit[2] = nsize -> fit[1]
       [] sz <= 2 -> nsize \div 2
       [] OTHER -> (tls * nsize) \div sz

\* g cut in direction d after z, and the part on the side given
Part(g, d, z, side) ==
  [g EXCEPT ![d] = IF side = "TL" THEN Span(@.pos, z) ELSE Span(@.pos + z, @.size - z)]

split_do_resize(s, top, ng, primns, transpose) ==
  LET sub == Subtree(s, top)
      newdir(n) == IF transpose THEN Other(s[n].dir) ELSE s[n].dir
      geom[n \in sub] ==
        IF n = top THEN ng
        ELSE LET p == s[n].up
                 d == newdir(p)
             IN Part(geom[p], d, TlSize(s, p, d, geom[p][d].size, primns[d]), SideOf(s, n))
      turned == [n \in DOMAIN s |->
                   IF n \in sub THEN [s[n] EXCEPT !.geom = geom[n], !.dir = newdir(n)]
                   ELSE s[n]]
  IN split_update_bounds(Table(turned), top)

\* Mutant: with the minima of an earlier call
split_resize_stale(s, top, ng, primns) == split_do_resize(s, top, ng, primns, FALSE)

split_resize(s, top, ng, primns) ==
  split_do_resize(split_update_bounds(s, top), top, ng, primns, FALSE)

-----------------------------------------------------------------------------
(* Requests, from a node to the root: what each sibling on the way gives   *)
(* or gets in the direction of its split                                   *)

bnd(req, old, minsz) ==
  LET ud == Abs(req.pos - old.pos)
      dd == Abs(req.pos + req.size - (old.pos + old.size))
      z == Greater(req.size, minsz)
  IN IF ud + dd = 0 THEN req
     ELSE Span(req.pos + Quot((req.size - z) * ud, ud + dd), z)

initra(req, old, any) ==
  LET tl == old.pos - req.pos
      br == req.pos + req.size - (old.pos + old.size)
  IN IF any THEN [tl |-> 0, br |-> br + tl, any |-> TRUE]
     ELSE [tl |-> tl, br |-> br, any |-> FALSE]

calc_amount(rs, s, other, d) ==
  IF rs > 0 THEN Lesser(rs, Greater(0, s[other].geom[d].size - s[other].min[d]))
  ELSE rs

\* which part of the amount still wanted the sibling of c is asked for
End(s, c, ra) == IF SideOf(s, c) = "TL" \/ ra.any THEN "br" ELSE "tl"
Amount(s, c, ra) == calc_amount(ra[End(s, c, ra)], s, Sibling(s, c), s[s[c].up].dir)
Less(s, c, ra) == [ra EXCEPT ![End(s, c, ra)] = @ - Amount(s, c, ra)]

\* What is left of the request at each node from sub to the root
Wanted(s, sub, ng, any) ==
  LET path == Path(s, sub)
      ra[n \in path] ==
        IF n = sub THEN [d \in Dirs |-> initra(ng[d], s[sub].geom[d], any[d])]
        ELSE LET c == CHOOSE k \in path : s[k].up = n
             IN [ra[c] EXCEPT ![s[n].dir] = Less(s, c, @)]
  IN ra

\* the sizes of c and its sibling when their parent gets the rectangle pg
Shares(s, c, pg, ra) ==
  LET p == s[c].up
      d == s[p].dir
      o == Sibling(s, c)
      a == Amount(s, c, ra[d])
      nz == Greater(0, s[c].geom[d].size + a)
      oz == Greater(0, s[o].geom[d].size - a)
  IN adjust_sizes(nz, oz, pg[d].size, nz + oz, s[c].min[d], s[o].min[d], "TL")

\* z at the end of g on the side given
AtEnd(g, d, z, side) ==
  [g EXCEPT ![d] = Span(IF side = "TL" THEN @.pos ELSE @.pos + @.size - z, z)]

\* The rectangles the nodes from sub to the root get
split_do_rqgeom_(s, sub, ng, any, ws) ==
  LET ra == Wanted(s, sub, ng, any)
      rg[n \in Path(s, sub)] ==
        IF s[n].up = NIL THEN ws
        ELSE LET pg == rg[s[n].up]
             IN AtEnd(pg, s[s[n].up].dir, Shares(s, n, pg, ra[n])[1], SideOf(s, n))
  IN rg

\* The request granted: all but sub itself is resized
Granted(s, sub, ng, any, ws) ==
  LET path == Path(s, sub)
      ra == Wanted(s, sub, ng, any)
      rg == split_do_rqgeom_(s, sub, ng, any, ws)
      above == [n \in DOMAIN s |->
                  IF n \in path \ {sub} THEN [s[n] EXCEPT !.geom = rg[n]] ELSE s[n]]
      Give(c, t) ==
        LET p == s[c].up
            d == s[p].dir
            o == Sibling(s, c)
            side == SideOf(s, c)
            og == AtEnd(rg[p], d, Shares(s, c, rg[p], ra[c])[2],
                        IF side = "TL" THEN "BR" ELSE "TL")
        IN split_do_resize(t, o, og, [PerDir("ANY", "ANY") EXCEPT ![d] = side], FALSE)
  IN FoldSet(Give, above, {c \in path : s[c].up # NIL})

splittree_rqgeom(s, sub, req, any, ws) ==
  LET t == split_update_bounds(s, split_find_root(s))
      old == t[sub].geom
      ng == [d \in Dirs |->
               LET b == bnd(req[d], old[d], t[sub].min[d])
               IN IF any[d] THEN Span(old[d].pos, b.size + old[d].pos - b.pos) ELSE b]
      rg == split_do_rqgeom_(t, sub, ng, any, ws)[sub]
      \* hany and vany are passed where a WPrimn is expected: TRUE is PRIMN_TL
      primns == [d \in Dirs |-> IF any[d] THEN "TL" ELSE "ANY"]
  IN split_do_resize(Granted(t, sub, ng, any, ws), sub, rg, primns, FALSE)

-----------------------------------------------------------------------------
(* Splitting, removing *)

NoGeom == PerDir(Span(0, 0), Span(0, 0))
RegionNode(up, g, hint) ==
  [up |-> up, tl |-> NIL, br |-> NIL, dir |-> "H", current |-> "TL",
   geom |-> g, min |-> PerDir(0, 0), hint |-> hint]

splittree_changeroot(s, node) == [s EXCEPT ![node].up = NIL]
splitsplit_replace(s, split, child, what) ==
  [s EXCEPT ![split] = IF @.tl = child THEN [@ EXCEPT !.tl = what] ELSE [@ EXCEPT !.br = what],
            ![what].up = split]
ReplaceUnder(s, up, child, what) ==
  IF up = NIL THEN splittree_changeroot(s, what) ELSE splitsplit_replace(s, up, child, what)

\* The sizes of the new region and of node, which has size z: first without
\* asking for room, then (rs being the room got) with it
FirstSizes(z, minsize, objmin) ==
  LET sn == Greater(minsize, z \div 2) IN [new |-> sn, old |-> Greater(objmin, z - sn)]
RoomSizes(rs, minsize, objmin) ==
  IF minsize > rs \div 2 THEN [new |-> minsize, old |-> rs - minsize]
  ELSE LET so == Greater(rs \div 2, objmin) IN [new |-> rs - so, old |-> so]

\* Mutant: the split takes the rectangle node had
Room_old(s, node, dir, minsize, ws) ==
  LET t == split_update_bounds(s, split_find_root(s))
      objmin == t[node].min[dir]
      size == t[node].geom[dir].size
      z == FirstSizes(size, minsize, objmin)
      ng == [t[node].geom EXCEPT ![dir].size = z.new + z.old]
      any == PerDir(TRUE, TRUE)
      rg == split_do_rqgeom_(t, node, ng, any, ws)[node]
  IN IF z.new + z.old = size
     THEN [tree |-> t, geom |-> t[node].geom, sizes |-> z, room |-> TRUE]
     ELSE [tree |-> Granted(t, node, ng, any, ws), geom |-> t[node].geom,
           sizes |-> RoomSizes(rg[dir].size, minsize, objmin),
           room |-> rg[dir].size >= minsize + objmin]

\* Room is made for a region of minsize beside node: geom is what the two get,
\* sizes how they share it, room says whether it is enough
Room(s, node, dir, minsize, ws) ==
  LET t == split_update_bounds(s, split_find_root(s))
      objmin == t[node].min[dir]
      size == t[node].geom[dir].size
      z == FirstSizes(size, minsize, objmin)
      ng == [t[node].geom EXCEPT ![dir].size = z.new + z.old]
      any == PerDir(TRUE, TRUE)
      rg == split_do_rqgeom_(t, node, ng, any, ws)[node]
  IN IF z.new + z.old = size
     THEN [tree |-> t, geom |-> t[node].geom, sizes |-> z, room |-> TRUE]
     ELSE [tree |-> Granted(t, node, ng, any, ws), geom |-> rg,
           sizes |-> RoomSizes(rg[dir].size, minsize, objmin),
           room |-> rg[dir].size >= minsize + objmin]

\* s with node split in direction dir in the room r: the node nsplit takes its
\* place, with the new region, in nnode, on the side given
splittree_split(s, r, node, dir, side, nsplit, nnode, hint) ==
  LET rest == IF side = "TL" THEN "BR" ELSE "TL"
      resized == split_do_resize(r.tree, node, AtEnd(r.geom, dir, r.sizes.old, rest),
                                 [PerDir("ANY", "ANY") EXCEPT ![dir] = side], FALSE)
      halves == IF side = "BR" THEN [tl |-> node, br |-> nnode] ELSE [tl |-> nnode, br |-> node]
      inner == [RegionNode(s[node].up, r.geom, PerDir(0, 0)) EXCEPT
                  !.dir = dir, !.tl = halves.tl, !.br = halves.br, !.current = rest]
      leaf == RegionNode(nsplit, AtEnd(r.geom, dir, r.sizes.new, side), hint)
      grown == [n \in DOMAIN s \cup {nsplit, nnode} |->
                  CASE n = nsplit -> inner [] n = nnode -> leaf [] OTHER -> resized[n]]
  IN [ReplaceUnder(grown, s[node].up, node, nsplit) EXCEPT ![node].up = nsplit]

splitsplit_remove(s, child) ==
  LET p == s[child].up
      o == Sibling(s, child)
      primns == [PerDir("ANY", "ANY") EXCEPT ![s[p].dir] = SideOf(s, child)]
      resized == split_resize(ReplaceUnder(s, s[p].up, p, o), o, s[p].geom, primns)
  IN [n \in DOMAIN s \ {p, child} |-> resized[n]]

-----------------------------------------------------------------------------
(* Flipping and transposing *)

\* Mutant: the half that is active stays on its side
flip_current_not(c) == c
\* so that the active half is the same
flip_current(c) == IF c = "TL" THEN "BR" ELSE "TL"

splitsplit_flip_default(s, p) ==
  LET t == split_update_bounds(s, p)
      d == t[p].dir
      tl == t[p].tl
      br == t[p].br
      any == PerDir("ANY", "ANY")
      tlng == [t[tl].geom EXCEPT ![d].pos = t[p].geom[d].pos + t[p].geom[d].size
                                            - t[tl].geom[d].size]
      brng == [t[br].geom EXCEPT ![d].pos = t[p].geom[d].pos]
      swapped == [t EXCEPT ![p].tl = br, ![p].br = tl,
                           ![p].current = flip_current(@)]
  IN split_do_resize(split_do_resize(swapped, br, brng, any, FALSE), tl, tlng, any, FALSE)

\* do_flip on all below top, parents first
splittree_flip_dir(s, top, dirs) ==
  LET depth(n) == Cardinality(Path(s, n))
      level[k \in Nat] ==
        IF k <= depth(top) THEN s
        ELSE FoldSet(LAMBDA n, t : IF t[n].dir \in dirs THEN splitsplit_flip_default(t, n) ELSE t,
                     level[k - 1], {n \in Subtree(s, top) \ Leaves(s) : depth(n) = k})
  IN level[Cardinality(DOMAIN s)]

split_fliptrans_to(s, node, g, trans, flip, ws) ==
  LET t == split_update_bounds(s, node)
      any == PerDir(FALSE, FALSE)
      rg == split_do_rqgeom_(t, node, g, any, ws)[node]
  IN splittree_flip_dir(split_do_resize(Granted(t, node, g, any, ws), node, rg,
                                        PerDir("ANY", "ANY"), trans),
                        node, flip)

-----------------------------------------------------------------------------
(* Walking through the tree *)

primn_invert(p) == CASE p = "TL" -> "BR" [] p = "BR" -> "TL" [] OTHER -> p
primn_none2any(p) == IF p = "NONE" THEN "ANY" ELSE p

\* the leaf at the end given by primns, where ANY is the last active half
split_current_todir(s, top, primns) ==
  LET todir[n \in DOMAIN s] ==
        IF IsLeaf(s, n) THEN n
        ELSE LET p == primns[s[n].dir]
             IN todir[Half(s, n, IF p = "ANY" THEN s[n].current ELSE p)]
  IN todir[top]

\* Mutant: not the near end of the neighbour, but the far one
split_nextto_far(s, node, primns) ==
  LET nextto[n \in DOMAIN s] ==
        IF s[n].up = NIL THEN NIL
        ELSE IF primns[s[s[n].up].dir] \in {"ANY", IF SideOf(s, n) = "TL" THEN "BR" ELSE "TL"}
        THEN split_current_todir(s, Sibling(s, n), [d \in Dirs |-> primn_none2any(primns[d])])
        ELSE nextto[s[n].up]
  IN nextto[node]

\* the leaf next to node in direction primns, or NIL
split_nextto(s, node, primns) ==
  LET back == [d \in Dirs |-> primn_none2any(primn_invert(primns[d]))]
      nextto[n \in DOMAIN s] ==
        IF s[n].up = NIL THEN NIL
        ELSE IF primns[s[s[n].up].dir] \in {"ANY", IF SideOf(s, n) = "TL" THEN "BR" ELSE "TL"}
        THEN split_current_todir(s, Sibling(s, n), back)
        ELSE nextto[s[n].up]
  IN nextto[node]

splitsplit_mark_current(s, node) ==
  LET path == Path(s, node)
  IN [n \in DOMAIN s |->
        IF n \in path \ {node}
        THEN [s[n] EXCEPT !.current = IF s[n].tl \in path THEN "TL" ELSE "BR"] ELSE s[n]]

-----------------------------------------------------------------------------
(* Resizing and swapping while what lies to the right is pushed along.     *)
(* Only the direction H is touched.                                        *)

Wider(s, wide, moved, delta) ==
  [n \in DOMAIN s |->
     [s[n] EXCEPT !.geom.H = Span(@.pos + (IF n \in moved THEN delta ELSE 0),
                                  @.size + (IF n \in wide THEN delta ELSE 0))]]

\* what gets wider with top: the nodes at its right edge
split_resize_descentdant_right(s, top) ==
  LET right[n \in DOMAIN s] ==
        {n} \cup (IF IsLeaf(s, n) THEN {}
                  ELSE right[s[n].br] \cup (IF s[n].dir = "V" THEN right[s[n].tl] ELSE {}))
  IN right[top]

split_move_up_right(s, node, delta) ==
  LET path == {n \in Path(s, node) : s[n].up # NIL}
      across == {n \in path : s[s[n].up].dir = "V"}
      before == {n \in path \ across : SideOf(s, n) = "TL"}
  IN Wider(s, path \cup UNION {split_resize_descentdant_right(s, Sibling(s, n)) : n \in across},
           UNION {Subtree(s, Sibling(s, n)) : n \in before}, delta)

split_resize_right(s, leaf, width) ==
  LET delta == width - s[leaf].geom.H.size
      top == split_find_root(s)
      wider == split_move_up_right(s, leaf, delta)
      buffer == split_current_todir(wider, top, PerDir("BR", "BR"))
  IN split_update_bounds(split_move_up_right(wider, buffer, -delta), top)

\* the geometry above node, and to the right of it, follows the width of node;
\* as the comment on tiling_swap_leaves demands, no split is vertical
propgate_geom_change_right(s, node) ==
  LET path == Path(s, node)
      span[n \in path] ==
        IF n = node THEN s[n].geom.H
        ELSE LET c == CHOOSE k \in path : s[k].up = n
                 o == s[Sibling(s, c)].geom.H
             IN Span(IF SideOf(s, c) = "TL" THEN span[c].pos ELSE o.pos, span[c].size + o.size)
      Push(c, t) ==
        LET o == Sibling(s, c)
        IN Wider(t, {}, Subtree(s, o), span[c].pos + span[c].size - s[o].geom.H.pos)
      above == [n \in DOMAIN s |-> IF n \in path THEN [s[n] EXCEPT !.geom.H = span[n]] ELSE s[n]]
  IN FoldSet(Push, Table(above), {c \in path : s[c].up # NIL /\ SideOf(s, c) = "TL"})

tiling_swap_leaves(s, a, b) ==
  LET other(n) == CASE n = a -> b [] n = b -> a [] OTHER -> n
      swapped == [n \in DOMAIN s |->
                    IF n \in {a, b}
                    THEN [s[n] EXCEPT !.up = s[other(n)].up,
                                      !.geom.H.pos = s[other(n)].geom.H.pos]
                    ELSE [s[n] EXCEPT !.tl = other(@), !.br = other(@)]]
      left == IF s[a].geom.H.pos < s[b].geom.H.pos THEN b ELSE a
  IN propgate_geom_change_right(propgate_geom_change_right(Table(swapped), left), other(left))
=============================================================================
