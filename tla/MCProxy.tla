------------------------------- MODULE MCProxy -------------------------------
(* TLC instances of Proxy: a photograph, a model on a page, a bare figure and *)
(* a clip; a strict account that may be made mild or get its pictures allowed. *)
EXTENDS Proxy, TLC

V(level, person) == [level |-> level, person |-> person]
SomeTruth == [t \in Things |->
    CASE t = "photo" -> V("clean", TRUE) [] t = "bare" -> V("immodest", TRUE)
      [] t = "clip" -> V("immodest", TRUE) [] OTHER -> V("clean", FALSE)]
SomePartly == [t \in Things |-> IF t = "clip" THEN {V("clean", TRUE)} ELSE {}]
OneClip == [u \in Urls |-> IF u = "vid" THEN {"clip"} ELSE {}]
NoSource == [p \in Urls \cup Pages |-> "plain"]

Rules(level, u, action, blocked) ==
    [level |-> level, blocked |-> blocked,
     rule |-> [p \in Urls \cup Pages |-> IF p = u THEN action ELSE "none"]]
AllPolicies == {Rules("immodest", "pic", "none", {}), Rules("nsfw", "pic", "none", {}),
                Rules("immodest", "page", "bypass", {"pic", "vid"})}
=============================================================================
