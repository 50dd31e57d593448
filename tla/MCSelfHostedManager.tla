------------------------ MODULE MCSelfHostedManager ------------------------
(* Small instances of SelfHostedManager.  A user changes the channel, pins  *)
(* an image or names another directory, one at a time.                      *)
EXTENDS SelfHostedManager

MCOverrides ==
    {NoOverride, [NoOverride EXCEPT !.image = "pin"],
     [NoOverride EXCEPT !.channel = "rc"], [NoOverride EXCEPT !.dir = "custom"]}
=============================================================================
