------------------------------ MODULE MCRequests ------------------------------
(* TLC instances of Requests: two pages of one folder, one of them with a
   query, and one at the top of the site. *)
EXTENDS Requests, TLC

Address(folder, page, query) ==
    [site |-> "shop", folder |-> folder, page |-> page, query |-> query]
SomeUrls == {Address("lib", "a", FALSE), Address("lib", "a", TRUE), Address("", "b", FALSE)}
SomeListed == {Address("lib", "a", FALSE)}
SomeRules ==
    {<<Rule("block", Site(Address("", "b", FALSE)))>>,
     <<Rule("block", Folder(Address("lib", "a", FALSE))),
       Rule("allow", Page(Address("lib", "a", FALSE)))>>}
=============================================================================
