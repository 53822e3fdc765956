----------------------------- MODULE MCImageCache -----------------------------
(***************************************************************************)
(* MCImageCache.cfg: three controllers (one runs a reader from the shared  *)
(* image, one builds, one arrives), three sealed images and one plain one. *)
(* Five descriptor numbers: one each for three controllers, one for the    *)
(* cached descriptor, one for the embedding program or a duplicate.        *)
(***************************************************************************)
EXTENDS ImageCache, TLC

DescriptorSymmetry ==
    Permutations(Controllers) \cup Permutations(Fds) \cup Permutations(Sealed)

=============================================================================
