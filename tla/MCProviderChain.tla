--------------------------- MODULE MCProviderChain ---------------------------
(* Values of the constants of ProviderChain for model checking: a primary and  *)
(* a second entry, of the same tier or of another, which is the local floor.   *)
EXTENDS ProviderChain

TwoTiers == {"standard", "nano"}
OneTier  == {"standard"}
Apart    == <<"standard", "nano">>
Together == <<"standard", "standard">>
Order2   == <<1, 2>>
Whole    == {AnyTier}
OneOrAny == {"standard", AnyTier}

None   == {}
First  == {1}
Second == {2}

AuthOnly   == {Auth}
BlipQuota  == {Transient, Quota}
GoneReject == {Transient, BadRequest, ModelGone}
=============================================================================
