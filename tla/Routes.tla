-------------------------------- MODULE Routes --------------------------------
(***************************************************************************)
(* The pure routing of src/dashboard.rs: what a request on the wire port   *)
(* that is no WebSocket upgrade is answered with, and what the plain-HTTP  *)
(* listener does.  A body is named by what it is made from: a static page, *)
(* an embedded asset, or one of the live documents.                        *)
(***************************************************************************)
LivePaths == {"/stats.json", "/health", "/map.json", "/dht.json"}
PagePaths == {"/", "/map", "/dht"}
AssetPaths == {"/mascot.png", "/map/globe.gl.min.js", "/map/earth.jpg"}
Response(status, body, cache) == [status |-> status, body |-> body, cache |-> cache]

NotFound == Response(404, "none", "none")
Redirected == Response(301, "none", "none")

\* route: a live document is never cached, an asset for ever.
Route(path) ==
    CASE path \in LivePaths -> Response(200, path, "no-store")
      [] path \in PagePaths -> Response(200, "page", "none")
      [] path \in AssetPaths -> Response(200, "asset", "immutable")
      [] OTHER -> NotFound

\* route_stun: the STUN vhost has two documents and the mascot.
RouteStun(path) ==
    CASE path = "/" -> Response(200, "stun_page", "none")
      [] path = "/stun.json" -> Response(200, "/stun.json", "no-store")
      [] path = "/mascot.png" -> Response(200, "asset", "immutable")
      [] OTHER -> NotFound

\* serve_http on the wire port; decide_redirect on the plain one.
ServeHttp(host, path) == IF host = "stun" THEN RouteStun(path) ELSE Route(path)

DecideRedirect(host, path) == IF host = "stun" THEN RouteStun(path) ELSE Redirected
==============================================================================
