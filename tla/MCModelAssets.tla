--------------------------- MODULE MCModelAssets ---------------------------
(* Manifests in which an entry comes twice, two entries share a path or a  *)
(* name, and one lacks its path, its url or its name.                      *)
EXTENDS ModelAssets, TLC

Entry(n, p, u) == [name |-> n, path |-> p, url |-> u]

MCManifests ==
  {<<>>,
   <<Entry("unet", "/a", "hub"), Entry("unet", "/a", "hub"), Entry("unet", "/b", "hub")>>,
   <<Entry("unet", "/a", "mirror"), Entry(None, "/b", "hub")>>,
   <<Entry("vae", None, "hub"), Entry("vae", "/b", None)>>}

Interchangeable == Permutations(Commands)
=============================================================================
