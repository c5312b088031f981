------------------------- MODULE MCDynamicResolver -------------------------
(* Providers and a fallback for checking DynamicResolver.                  *)
EXTENDS DynamicResolver

CONSTANTS ext1, ext2, int1, static, http, https

At(address, scheme) == [address |-> address, scheme |-> scheme]

\* An external-only, an internal-only and a dual-endpoint provider, and one with
\* no endpoint at all.
MCServices ==
    {[External |-> <<At(ext1, https)>>, Internal |-> <<>>],
     [External |-> <<>>, Internal |-> <<At(int1, http)>>],
     [External |-> <<At(ext2, http)>>, Internal |-> <<At(int1, http)>>],
     [External |-> <<>>, Internal |-> <<>>]}

MCAddresses   == {ext1, ext2, int1, static}
MCSchemeNames == {http, https}
MCFallback    == At(static, http)
=============================================================================
