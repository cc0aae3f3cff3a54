--------------------------- MODULE MCBundleLoads ---------------------------
(* Archives for each way a load can go, and settings around them: limits   *)
(* that some archives meet exactly and others exceed by one.               *)
EXTENDS BundleLoads

CONSTANTS k1, k2, bad, u1

Sound(size, signature, schema) ==
  [size |-> size, uncompressed |-> size, signature |-> signature, flaw |-> "none", schema |-> schema]

MCArchives ==
  { Sound(2, k1, TRUE), Sound(1, "none", FALSE), Sound(3, k1, TRUE),
    [Sound(1, k2, TRUE) EXCEPT !.flaw = "validation"], [Sound(1, "invalid", TRUE) EXCEPT !.flaw = "archive"],
    [Sound(1, k1, TRUE) EXCEPT !.uncompressed = 3] }

Setting(url, components, keys, policy, strict, request) ==
  [ bundle_url |-> url, component_urls |-> components, bundle_refresh |-> 1,
    max_bundle_compressed_bytes |-> 2, max_bundle_uncompressed_bytes |-> 2,
    max_request_size |-> request, signature_policy |-> policy, trusted_keys |-> keys, strict |-> strict ]

MCConfigs ==
  { Setting(TRUE, FALSE, {k1}, policy, FALSE, 1) : policy \in {"allow-unsigned", "required"} }
  \cup { Setting(FALSE, TRUE, {k1, k2}, "allow-unsigned", TRUE, 1),
         Setting(TRUE, FALSE, {}, "allow-unsigned", TRUE, 2) }
  \cup { Setting(TRUE, TRUE, {k1}, "required", FALSE, 2), Setting(TRUE, FALSE, {bad}, "required", FALSE, 2),
         Setting(TRUE, FALSE, {}, "required", FALSE, 2),
         [Setting(TRUE, FALSE, {k1}, "required", FALSE, 2) EXCEPT !.bundle_refresh = 0],
         [Setting(FALSE, FALSE, {k1}, "required", FALSE, 2) EXCEPT !.max_bundle_compressed_bytes = 0] }
=============================================================================
