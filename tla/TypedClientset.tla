---------------------------- MODULE TypedClientset ----------------------------
(***************************************************************************)
(* The typed client for Networks: what each of its methods asks of the API  *)
(* server.  A method builds one REST request and waits for the answer; the  *)
(* client keeps nothing but its namespace.  What becomes of a request is    *)
(* said by the modules that send one: NetworkClients and NetworkInformer.   *)
(***************************************************************************)

CONSTANTS
  Nil,               \* no name, no parameters, no body: what a method leaves out
  Merge              \* the type of a merge patch

\* SamplecrdV1Client.Networks and what it returns.
newNetworks(namespace) == [ns |-> namespace]
Networks(namespace) == newNetworks(namespace)

Request(verb, c, name, params, body) ==
  [verb |-> verb, ns |-> c.ns, name |-> name, params |-> params, body |-> body]

Get(c, name, options) == Request("GET", c, name, options, Nil)

List(c, opts) == Request("GET", c, Nil, opts, Nil)

\* Mutant: a watch that does not say where it starts.
WatchFromNow(c, opts) ==
  Request("GET", c, Nil, [opts EXCEPT !.watch = TRUE, !.rv = 0], Nil)

Watch(c, opts) == Request("GET", c, Nil, [opts EXCEPT !.watch = TRUE], Nil)

Create(c, network) == Request("POST", c, Nil, Nil, network)

\* Mutant: the update is sent as a patch of the spec, without a version.
UpdateAsPatch(c, network) ==
  Request("PATCH", c, network.name, Merge, [spec |-> network.spec])

\* Mutant: the object's own namespace in place of the client's.
UpdateByObjectNamespace(c, network) ==
  Request("PUT", [c EXCEPT !.ns = network.ns], network.name, Nil, network)

Update(c, network) == Request("PUT", c, network.name, Nil, network)

\* Mutant: the options are not sent.
DeleteWithoutOptions(c, name, options) == Request("DELETE", c, name, Nil, Nil)

Delete(c, name, options) == Request("DELETE", c, name, Nil, options)

DeleteCollection(c, options, listOptions) ==
  Request("DELETE", c, Nil, listOptions, options)

\* The type of the patch travels as the content type of its body.
Patch(c, name, pt, data) == Request("PATCH", c, name, pt, data)
=============================================================================
