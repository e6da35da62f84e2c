------------------------------- MODULE Options -------------------------------
(***************************************************************************)
(* What becomes of the command line (main.cpp, parser.cpp): main parses    *)
(* the options, starts the camera, listens, and runs the io thread, whose  *)
(* first POST makes a peer of them.                                        *)
(*                                                                         *)
(* An option is what the program distinguishes of it: whether a camera's   *)
(* prefix, its number and the name of a format are known, and what a STUN  *)
(* url begins with.                                                        *)
(***************************************************************************)
EXTENDS Naturals

CONSTANT Timeouts       \* bound: the values of --peer-timeout

Formats == {"mjpeg", "h264", "i420", "yuyv"}
Args ==
  [camera: {"v4l2:number", "v4l2:word", "other:number", "no colon"},
   v4l2_format: Formats \cup {"unknown"},
   stun_url: {"stun:host", "stun", "other", ""},
   peer_timeout: Timeouts]

\* No peer, or a PeerConfig.
NoConfig == [timeout |-> 0]
Config(timeout, inSdp, server) ==
  [timeout |-> timeout, has_candidates_in_sdp |-> inSdp, iceServer |-> server]

VARIABLES
  pc,           \* the statement of main, then the io thread's
  args,
  format,       \* Args::format
  config,       \* of the first peer
  timeout_,     \* of the first peer
  status        \* "running", or how the process ended

vars == <<pc, args, format, config, timeout_, status>>

Init ==
  /\ pc = "parse"
  /\ args \in Args
  /\ format = "mjpeg"
  /\ config = NoConfig
  /\ timeout_ = 0
  /\ status = "running"

Move(from, to) == pc = from /\ pc' = to
End(how) == status' = how /\ UNCHANGED <<pc, args, format, config, timeout_>>

\* A line that boost cannot parse, and --help, end the program; so does a
\* url with another scheme, but not an empty one.
ParseArgs ==
  \/ /\ Move("parse", "device")
     /\ args.stun_url # "other"
     /\ UNCHANGED <<args, format, config, timeout_, status>>
  \/ pc = "parse" /\ End("exit 1")

ParseDevice ==
  \/ /\ Move("device", "webrtc")
     /\ args.camera = "v4l2:number"
     /\ args.v4l2_format \in Formats
     /\ format' = args.v4l2_format
     /\ UNCHANGED <<args, config, timeout_, status>>
  \/ /\ pc = "device"
     /\ args.camera # "v4l2:number" \/ args.v4l2_format \notin Formats
     /\ End("uncaught")

\* V4L2Capturer gives up with status 0, or throws; LibAvEncoder throws.
CreateV4L2Webrtc ==
  \/ /\ Move("webrtc", "listen")
     /\ UNCHANGED <<args, format, config, timeout_, status>>
  \/ pc = "webrtc" /\ \E how \in {"exit 0", "uncaught"} : End(how)

\* The acceptor throws when the port is taken.
CreateHttpService ==
  \/ /\ Move("listen", "post")
     /\ UNCHANGED <<args, format, config, timeout_, status>>
  \/ pc = "listen" /\ End("uncaught")

\* A POST's own PeerConfig, with the timeout of PeerConfig (rtc_peer.h:14).
HandlePostRequest ==
  /\ Move("post", "configure")
  /\ config' = Config(10, TRUE, "none")
  /\ UNCHANGED <<args, format, timeout_, status>>

\* rtc::IceServer parses the url, and throws for one that is none.
CreatePeerConnection ==
  \/ /\ Move("configure", "create")
     /\ config' = [config EXCEPT !.iceServer = args.stun_url]
     /\ UNCHANGED <<args, format, timeout_, status>>
  \/ pc = "configure" /\ args.stun_url # "stun:host" /\ End("uncaught")

ConstructPeer ==
  /\ Move("create", "created")
  /\ timeout_' = config.timeout
  /\ UNCHANGED <<args, format, config, status>>

Over == (status # "running" \/ pc = "created") /\ UNCHANGED vars

Next ==
  \/ /\ status = "running"
     /\ \/ ParseArgs \/ ParseDevice \/ CreateV4L2Webrtc \/ CreateHttpService
        \/ HandlePostRequest \/ CreatePeerConnection \/ ConstructPeer
  \/ Over

Spec == Init /\ [][Next]_vars

-----------------------------------------------------------------------------
\* "The connection timeout (in seconds) after receiving a remote offer"
\* (parser.cpp:45): a peer waits as long as --peer-timeout says.
TimeoutIsOption == pc = "created" => timeout_ = args.peer_timeout
=============================================================================
