------------------------------- MODULE Tiling -------------------------------
(***************************************************************************)
(* Tilings (mod_tiling/tiling.c): a workspace whose frames are the leaves  *)
(* of a tree of splits.  The calls of Lua scripts and key bindings (split, *)
(* resize, flip, transpose), the frames that go, the focus that moves and  *)
(* the workspace that gets another size or is rotated, over the operators  *)
(* of Split.                                                               *)
(***************************************************************************)
EXTENDS Split, TLC

CONSTANTS
  MaxFrames,   \* bound of the model: frames in the tiling
  Sizes,       \* of the workspace
  Hints,       \* minimum sizes of frames: borders and tab bar
  SPLIT_MINS,
  Requests,    \* what is asked for: [move, grow, weak], changes of the position
               \* and the size, and whether the position is a mere suggestion
  Calls,       \* calls included although they break an invariant, see Guarded
  MaxOps       \* bound of the model: calls

ASSUME TilingAssumption ==
  /\ MaxFrames \in Nat \ {0}
  /\ \A z \in Sizes \cup Hints : \A d \in Dirs : z[d] \in Nat \ {0}
  /\ \A r \in Requests : r.move \in Int /\ r.grow \in Int /\ r.weak \in BOOLEAN
  /\ MaxOps \in Nat

VARIABLES
  split, \* ws->split_tree
  ws,    \* REGION_GEOM(ws)
  left   \* what is left of MaxOps
vars == <<split, ws, left>>

root == split_find_root(split)
Screen(z) == [d \in Dirs |-> Span(0, z[d])]
tiling_current(s) == split_current_todir(s, split_find_root(s), PerDir("ANY", "ANY"))

\* What the runs leave out, for an invariant does not survive it: "mins", a frame that needs
\* more than it gets, for only minsize is asked for it (SPLIT_MINS is "totally
\* arbitrary"); "noframe", a frame that cannot be created after room was made for it;
\* "small", a workspace below the minima; "transpose", a tree turned where it does
\* not fit; "swap", the current frame swapped
Guarded(call, breaks) == breaks => call \in Calls

Fits(s, g) ==
  LET r == split_find_root(s)
      m == split_update_bounds(s, r)[r].min
  IN \A d \in Dirs : m[d] <= g[d].size

Init ==
  \E z \in Sizes, h \in Hints :
    /\ left = MaxOps
    /\ ws = Screen(z)
    /\ split = (1 :> RegionNode(NIL, Screen(z), h))
    /\ Fits(split, ws)

Free == 1 .. (2 * MaxFrames) \ DOMAIN split
nsplit == CHOOSE n \in Free : \A k \in Free : n <= k
nnode == CHOOSE n \in Free \ {nsplit} : \A k \in Free \ {nsplit} : n <= k

\* The tree as it is when the frame cannot be created: the siblings on the way to the root
\* have given way, node has not grown
NoFrame(r, node) ==
  /\ Guarded("noframe", r.geom # split[node].geom)
  /\ split' = r.tree

tiling_do_split(node, dir, side, minsize, go) ==
  LET r == Room(split, node, dir, minsize, ws)
  IN /\ Cardinality(Leaves(split)) < MaxFrames
     /\ \/ /\ ~r.room
           /\ split' = split_update_bounds(split, root)
        \/ r.room /\ NoFrame(r, node)
        \/ /\ r.room
           /\ \E hint \in Hints :
                LET grown == splittree_split(split, r, node, dir, side, nsplit, nnode, hint)
                IN /\ Guarded("mins", \E d \in Dirs : hint[d] > grown[nnode].geom[d].size)
                   /\ split' = IF go THEN splitsplit_mark_current(grown, nnode) ELSE grown
     /\ UNCHANGED ws

\* at any node, from a script
tiling_split == \E node \in DOMAIN split, dir \in Dirs, side \in {"TL", "BR"} :
  tiling_do_split(node, dir, side, SPLIT_MINS, FALSE)
\* beside a frame, as large as that frame must be; it may get the focus
tiling_split_at == \E leaf \in Leaves(split), dir \in Dirs, side \in {"TL", "BR"}, go \in BOOLEAN :
  tiling_do_split(leaf, dir, side, split[leaf].hint[dir], go)

tiling_managed_rqgeom(node) ==
  \E d \in Dirs, r \in Requests :
    LET g == split[node].geom
        req == [g EXCEPT ![d] = Span(@.pos + r.move, Greater(1, @.size + r.grow))]
    IN /\ split' = splittree_rqgeom(split, node, req, PerDir(r.weak, r.weak), ws)
       /\ UNCHANGED ws

\* The last frame is replaced by a new one (or, when that cannot be created, leaves the
\* tiling without a tree, "in useless state"); else the neighbour gets the focus
tiling_managed_remove(leaf) ==
  LET other == split_nextto(split, leaf, PerDir("ANY", "ANY"))
  IN /\ \E hint \in Hints, act \in BOOLEAN :
          /\ act => tiling_current(split) = leaf
          /\ Guarded("mins", other = NIL /\ \E d \in Dirs : hint[d] > split[leaf].geom[d].size)
          /\ split' = IF other = NIL THEN [split EXCEPT ![leaf].hint = hint]
                      ELSE LET rest == splitsplit_remove(split, leaf)
                           IN IF act THEN splitsplit_mark_current(rest, other) ELSE rest
     /\ UNCHANGED ws

tiling_managed_prepare_focus(leaf) ==
  /\ split' = splitsplit_mark_current(split, leaf)
  /\ UNCHANGED ws

iowns_flip_at(node) ==
  /\ split' = splitsplit_flip_default(split, node)
  /\ UNCHANGED ws

iowns_transpose_at(node) ==
  /\ split' = split_fliptrans_to(split, node, split[node].geom, TRUE, Dirs, ws)
  /\ Guarded("transpose", ~Fits(split', ws))
  /\ UNCHANGED ws

\* what the comments leave to the callers of the next two: that nothing becomes
\* too narrow, and that no split is vertical
ResizeRight(leaf) ==
  \E r \in Requests :
    /\ split' = split_resize_right(split, leaf, split[leaf].geom.H.size + r.grow)
    /\ \A n \in Leaves(split) : split'[n].geom.H.size >= split[n].hint.H
    /\ UNCHANGED ws

SwapLeaves(a, b) ==
  /\ \A n \in Inner(split) : split[n].dir = "H"
  /\ Guarded("swap", tiling_current(split) \in {a, b})
  /\ split' = tiling_swap_leaves(split, a, b)
  /\ UNCHANGED ws

tiling_fitrep ==
  \E z \in Sizes :
    LET g == Screen(z)
        any == PerDir("ANY", "ANY")
    IN /\ Guarded("small", ~Fits(split, g))
       /\ ws' = g
       /\ \/ split' = split_resize(split, root, g, any)
          \/ \* rotated: by 0 or 180 degrees, and by 90 or 270
             \E flips \in {{}, Dirs} :
               split' = split_fliptrans_to(split, root, g, FALSE, flips, g)
          \/ /\ \E flip \in Dirs : split' = split_fliptrans_to(split, root, g, TRUE, {flip}, g)
             /\ Guarded("transpose", ~Fits(split', g))

Call ==
  \/ tiling_split
  \/ tiling_split_at
  \/ \E node \in DOMAIN split : tiling_managed_rqgeom(node)
  \/ \E leaf \in Leaves(split) : tiling_managed_remove(leaf)
  \/ \E leaf \in Leaves(split) : tiling_managed_prepare_focus(leaf)
  \/ \E node \in Inner(split) : iowns_flip_at(node)
  \/ \E node \in DOMAIN split : iowns_transpose_at(node)
  \/ \E leaf \in Leaves(split) : ResizeRight(leaf)
  \/ \E a \in Leaves(split) : \E b \in Leaves(split) \ {a} : SwapLeaves(a, b)
  \/ tiling_fitrep

Next == left > 0 /\ left' = left - 1 /\ Call

Spec == Init /\ [][Next]_vars

-----------------------------------------------------------------------------
(* Properties *)

\* The links of the tree agree, and each split has two halves
TreeSound ==
  /\ Cardinality({n \in DOMAIN split : split[n].up = NIL}) = 1
  /\ \A n \in Inner(split) :
       /\ split[n].tl # split[n].br
       /\ \A c \in {split[n].tl, split[n].br} : c \in DOMAIN split /\ split[c].up = n
  /\ Cardinality(DOMAIN split) = 2 * Cardinality(Leaves(split)) - 1

\* The halves of each split lie side by side and fill it, and the root fills
\* the workspace
Tiles ==
  /\ TreeSound
  /\ split[root].geom = ws
  /\ \A n \in Inner(split) :
       LET g == split[n].geom
           d == split[n].dir
           z == split[split[n].tl].geom[d].size
       IN /\ split[split[n].tl].geom = Part(g, d, z, "TL")
          /\ split[split[n].br].geom = Part(g, d, z, "BR")
          /\ 0 <= z /\ z <= g[d].size

AllFit == \A n \in Leaves(split) : \A d \in Dirs : split[n].geom[d].size >= split[n].hint[d]
\* When no region is smaller than its minimum, none becomes so but by turning
\* the tree
MinKept ==
  [][\/ AllFit => AllFit'
     \/ \E n \in DOMAIN split \cap DOMAIN split' : split[n].dir # split'[n].dir]_vars

Towards == {PerDir("TL", "NONE"), PerDir("BR", "NONE"), PerDir("NONE", "TL"), PerDir("NONE", "BR")}
\* The neighbour found in a direction lies at that side of a region, and there
\* is none only at the edge of the workspace
NextAdjacent ==
  \A n \in Leaves(split), to \in Towards :
    LET k == split_nextto(split, n, to)
        d == IF to["H"] = "NONE" THEN "V" ELSE "H"
        end(g) == g[d].pos + g[d].size
        g == split[n].geom
    IN IF to[d] = "BR"
       THEN IF k = NIL THEN end(g) = end(ws) ELSE split[k].geom[d].pos = end(g)
       ELSE IF k = NIL THEN g[d].pos = ws[d].pos ELSE end(split[k].geom) = g[d].pos

\* The workspace is tiled, and the directions of the tree are those of the screen
Tiled == Tiles /\ NextAdjacent

\* The current region is another one only after a region got the focus, be it
\* new or not, or when the current one went: then it is the one next to it,
\* which gets the focus
CurrentFollows ==
  [][LET cur == tiling_current(split)
         cur2 == tiling_current(split')
     IN \/ cur2 = cur
        \/ cur2 \notin DOMAIN split
        \/ /\ DOMAIN split' = DOMAIN split
           /\ \A n \in DOMAIN split : split'[n] = [split[n] EXCEPT !.current = split'[n].current]
        \/ cur \notin DOMAIN split' /\ cur2 = split_nextto(split, cur, PerDir("ANY", "ANY"))]_vars
=============================================================================
