------------------------------ MODULE Presets -------------------------------
(***************************************************************************)
(* The way of a job's parameters: from the request through the validation  *)
(* of handleCreateJob (internal/presets) and the params column to the      *)
(* runner, which parses them again and plans its tools from them           *)
(* (internal/runner).  Between the two any time may pass, and what a host  *)
(* name resolves to, and whether a length can be probed, may change.       *)
(*                                                                         *)
(* A request is a record with a value for every field of its type, Absent  *)
(* where the JSON has none.  Switches that are passed on unexamined        *)
(* (strip_metadata and the embed ones) are left out.  Times of an edit are *)
(* sixteenths of a second, which float64 holds exactly, and what ffmpeg is *)
(* given are milliseconds; a format id is represented by its class.        *)
(***************************************************************************)
EXTENDS Integers

CONSTANTS
  Absent,
  Requests,          \* [type, raw, url, ext]: a body of POST /api/jobs
  DefaultRetention,  \* DEFAULT_RETENTION_DAYS
  Answers,           \* what the resolver may answer: sets of classes of addresses
  Lengths            \* whole seconds ffprobe may report; 0 if it fails

-----------------------------------------------------------------------------
(* The tables                                                              *)

VideoContainers == {"mp4", "mkv", "webm", "mov"}
VideoCodecs == {"h264", "h265", "vp9", "av1", "copy"}
EncodeSpeeds == {"veryfast", "faster", "fast", "medium", "slow", "veryslow"}
Resolutions == {"source", "2160", "1440", "1080", "720", "480", "360"}
FrameRates == {"source", "60", "30", "24"}
AudioCodecs == {"aac", "opus", "mp3", "flac", "copy", "none"}
AudioFormats == {"mp3", "m4a", "opus", "flac", "wav"}
ImageFormats == {"source", "jpg", "png", "webp", "avif", "gif", "tiff", "svg", "svg_trace"}
RetentionChoices == {0, 1, 7, 30}

\* Bitrates with what Atoi makes of them.
Kbps == [b \in {"64", "96", "128", "192", "256", "320"} |->
          CASE b = "64" -> 64 [] b = "96" -> 96 [] b = "128" -> 128
            [] b = "192" -> 192 [] b = "256" -> 256 [] b = "320" -> 320]
AudioBitrates == DOMAIN Kbps

CRFBounds ==
  [h264 |-> 14..34, h265 |-> 18..38, vp9 |-> 20..45, av1 |-> 20..50]
CompressCRF ==
  [light      |-> [h264 |-> 20, h265 |-> 24, vp9 |-> 28, av1 |-> 30],
   balanced   |-> [h264 |-> 24, h265 |-> 28, vp9 |-> 33, av1 |-> 36],
   aggressive |-> [h264 |-> 30, h265 |-> 34, vp9 |-> 40, av1 |-> 44]]
EncodePresetCRF ==
  [quality  |-> [h264 |-> 18, h265 |-> 22, vp9 |-> 24, av1 |-> 26],
   balanced |-> [h264 |-> 23, h265 |-> 27, vp9 |-> 31, av1 |-> 34],
   speed    |-> [h264 |-> 25, h265 |-> 29, vp9 |-> 33, av1 |-> 36],
   size     |-> [h264 |-> 30, h265 |-> 34, vp9 |-> 40, av1 |-> 45]]
EncodePresetSpeed ==
  [quality |-> "slow", balanced |-> "medium", speed |-> "veryfast", size |-> "slow"]
ImageFormatByExt ==
  [jpg |-> "jpg", jpeg |-> "jpg", png |-> "png", webp |-> "webp", avif |-> "avif",
   gif |-> "gif", tif |-> "tiff", tiff |-> "tiff", svg |-> "svg"]

ASSUME ConstantsAssumption ==
  DefaultRetention \in RetentionChoices   \* config.Load refuses any other

-----------------------------------------------------------------------------
(* Parsing                                                                 *)

\* The values a Parse function starts from.
Defaults(type, days) ==
  CASE type = "download" ->
         [mode |-> "video", format_id |-> "", audio_format |-> "", audio_bitrate |-> "",
          container |-> "", retention_days |-> days]
    [] type = "convert" ->
         [preset |-> "custom", container |-> "mp4", video_codec |-> "h264", speed |-> "medium",
          crf |-> 23, resolution |-> "source", frame_rate |-> "source", audio_codec |-> "aac",
          audio_bitrate |-> "192", retention_days |-> days]
    [] type = "compress" ->
         [target |-> "balanced", target_size_mb |-> 0, container |-> "mp4", video_codec |-> "h264",
          speed |-> "medium", resolution |-> "source", audio_bitrate |-> "128", retention_days |-> days]
    [] type = "image" ->
         [format |-> "webp", trace |-> "dark", quality |-> 82, width |-> 0, height |-> 0,
          retention_days |-> days]
    [] type = "edit" ->
         [start |-> 0, end |-> 0, crop_x |-> 0, crop_y |-> 0, crop_w |-> 0, crop_h |-> 0,
          retention_days |-> days]

\* json.Decode into a struct that has the defaults.
Decode(raw, d) == [f \in DOMAIN d |-> IF raw[f] = Absent THEN d[f] ELSE raw[f]]

Types == {"download", "convert", "compress", "image", "edit"}

\* Absent is no value; the sizes of a crop are integers, which json.Decode sees
\* to; a literal address is one.
ASSUME RequestsAssumption ==
  /\ Absent \notin Int /\ Absent \notin EncodeSpeeds
  /\ \A t \in Types, n \in RetentionChoices :
       \A f \in DOMAIN Defaults(t, n) : Defaults(t, n)[f] # Absent
  /\ \A r \in Requests :
       /\ DOMAIN r = {"type", "raw", "url", "ext"} /\ r.type \in Types
       /\ r.type = "edit" => {r.raw.crop_w, r.raw.crop_h} \subseteq Int \cup {Absent}
       /\ r.url.host = "literal" => r.url.addrs # {}
  /\ Lengths \subseteq Nat

ValidDownload(p) ==
  /\ p.mode \in {"video", "audio"}
  /\ p.format_id \in {"", "plain", "merge"}   \* formatIDRe, at most 64 bytes
  /\ p.mode = "audio" => p.audio_format \in AudioFormats /\ p.audio_bitrate \in AudioBitrates \cup {""}
  /\ p.mode = "video" => p.container \in VideoContainers \cup {""}

\* Slip: the quality of a custom preset is not held against the codec.
CheckPresetLoose(p) == p.preset = "custom" \/ p.video_codec # "copy"

CheckPreset(p) ==
  IF p.preset = "custom"
  THEN /\ p.speed \in EncodeSpeeds
       /\ p.video_codec # "copy" => p.crf \in CRFBounds[p.video_codec]
  ELSE p.video_codec \in DOMAIN EncodePresetCRF[p.preset]

CheckContainerCodec(container, vcodec, acodec) ==
  \/ vcodec = "copy" \/ acodec = "copy"
  \/ /\ container = "webm" => vcodec \in {"vp9", "av1"} /\ acodec \in {"opus", "none"}
     /\ container \in {"mp4", "mov"} => vcodec # "vp9" /\ acodec # "flac"

ValidConvert(p) ==
  /\ p.container \in VideoContainers /\ p.video_codec \in VideoCodecs
  /\ p.preset \in DOMAIN EncodePresetCRF \cup {"custom"} /\ CheckPreset(p)
  /\ p.resolution \in Resolutions /\ p.frame_rate \in FrameRates /\ p.audio_codec \in AudioCodecs
  /\ p.audio_codec \notin {"none", "copy", "flac"} => p.audio_bitrate \in AudioBitrates
  /\ CheckContainerCodec(p.container, p.video_codec, p.audio_codec)

Resolved(p) ==
  IF p.preset = "custom" THEN p
  ELSE [p EXCEPT !.speed = EncodePresetSpeed[p.preset],
                 !.crf = EncodePresetCRF[p.preset][p.video_codec]]

DefaultAudioCodec(container) == IF container = "webm" THEN "opus" ELSE "aac"

TargetSizeMaxMB == 65536

CheckTargetSize(p) ==
  IF p.target = "target_size"
  THEN p.video_codec \in DOMAIN CRFBounds /\ p.target_size_mb \in 1..TargetSizeMaxMB
  ELSE p.target_size_mb = 0 /\ p.video_codec \in DOMAIN CompressCRF[p.target]

ValidCompress(p) ==
  /\ p.target \in DOMAIN CompressCRF \cup {"target_size"} /\ p.container \in VideoContainers
  /\ p.speed \in EncodeSpeeds /\ p.resolution \in Resolutions /\ p.audio_bitrate \in AudioBitrates
  /\ CheckTargetSize(p)
  /\ CheckContainerCodec(p.container, p.video_codec, DefaultAudioCodec(p.container))

MaxDim == 20000

ValidImage(p) ==
  /\ p.format \in ImageFormats /\ p.trace \in {"dark", "light"}
  /\ p.quality \in 0..100 /\ p.width \in 0..MaxDim /\ p.height \in 0..MaxDim

\* Slip: an odd size is kept.
Odd(n) == n

\* The lowest bit of a size is dropped before the bounds are checked.
Even(n) == n - (n % 2)

EditMax == 24 * 3600 * 16
CropMinPixels == 16
CropMaxPixels == 20000

CheckCrop(p) ==
  IF p.crop_w = 0 /\ p.crop_h = 0 THEN p.crop_x = 0 /\ p.crop_y = 0
  ELSE /\ Even(p.crop_w) \in CropMinPixels..CropMaxPixels
       /\ Even(p.crop_h) \in CropMinPixels..CropMaxPixels
       /\ p.crop_x \in 0..CropMaxPixels /\ p.crop_y \in 0..CropMaxPixels

\* End - Start < 0.1 s is refused.
ValidEdit(p) ==
  /\ p.start \in 0..EditMax /\ p.end \in 0..EditMax
  /\ p.end > 0 => (p.end - p.start) * 10 >= 16
  /\ CheckCrop(p)

\* Slip: any number of days will do.
ValidAnyDays(type, p) ==
  CASE type = "download" -> ValidDownload(p) [] type = "convert" -> ValidConvert(p)
    [] type = "compress" -> ValidCompress(p) [] type = "image" -> ValidImage(p)
    [] type = "edit" -> ValidEdit(p)

Valid(type, p) ==
  /\ p.retention_days \in RetentionChoices
  /\ CASE type = "download" -> ValidDownload(p) [] type = "convert" -> ValidConvert(p)
       [] type = "compress" -> ValidCompress(p) [] type = "image" -> ValidImage(p)
       [] type = "edit" -> ValidEdit(p)

\* What parsing changes in valid parameters.
Fold(type, p) ==
  CASE type = "convert" -> Resolved(p)
    [] type = "edit" -> [p EXCEPT !.crop_w = Even(@), !.crop_h = Even(@)]
    [] OTHER -> p

-----------------------------------------------------------------------------
(* Source addresses                                                        *)

Permitted == {"public"}   \* addrPermitted, as against "internal"

\* ValidateSourceURL: a literal address is judged as it is, a well-formed name
\* by all that it resolves to now.
CheckSourceHost(url, answer) ==
  /\ url.scheme \in {"http", "https"}
  /\ \/ url.host = "literal" /\ url.addrs \subseteq Permitted
     \/ url.host = "name" /\ answer # {} /\ answer \subseteq Permitted

-----------------------------------------------------------------------------
(* Planning                                                                *)

\* Slip: the audio is not taken off the budget.
TargetVideoKbpsGross(mb, secs, audio) ==
  LET video == (mb * 7840) \div secs IN IF video > 500000 THEN 500000 ELSE video

\* targetVideoKbps: megabytes to kilobits, less 2 % for the container, over the
\* running time, less the audio, capped.
TargetVideoKbps(mb, secs, audio) ==
  LET video == (mb * 7840) \div secs - audio IN IF video > 500000 THEN 500000 ELSE video

\* A budget that cannot be met is an error of the job.
BudgetFits(p, secs) ==
  p.target = "target_size" => secs > 0 /\ TargetVideoKbps(p.target_size_mb, secs, Kbps[p.audio_bitrate]) >= 100

\* specFor and ffmpegArgs.  With a copied stream neither quality nor filters.
EncodePlan(p, crf, kbps, fps, audio, secs) ==
  [tool |-> "ffmpeg", secs |-> secs, container |-> p.container, video |-> p.video_codec,
   crf |-> crf, kbps |-> kbps, speed |-> p.speed,
   scale |-> IF p.video_codec = "copy" THEN "source" ELSE p.resolution,
   fps |-> IF p.video_codec = "copy" THEN "source" ELSE fps,
   audio |-> audio,
   akbps |-> IF audio \in {"aac", "opus", "mp3"} THEN Kbps[p.audio_bitrate] ELSE 0]

ConvertPlan(p) ==
  EncodePlan(p, IF p.video_codec = "copy" THEN 0 ELSE Resolved(p).crf, 0, p.frame_rate, p.audio_codec, 0)

CompressPlan(p, secs) ==
  IF p.target = "target_size"
  THEN EncodePlan(p, 0, TargetVideoKbps(p.target_size_mb, secs, Kbps[p.audio_bitrate]), "source",
                  DefaultAudioCodec(p.container), secs)
  ELSE EncodePlan(p, CompressCRF[p.target][p.video_codec], 0, "source", DefaultAudioCodec(p.container), secs)

\* seconds: three decimals; what lies halfway goes to the even one.
Seconds(n) ==
  LET ms == (n * 125) \div 2
  IN IF (n * 125) % 2 = 1 /\ ms % 2 = 1 THEN ms + 1 ELSE ms

\* editPlan and editArgs, the times in milliseconds.  Audio files are cut without re-encoding, and then a
\* crop has nothing to act on.  An extension of more than five characters counts
\* as none.
AudioOnlyExt == {"mp3", "m4a", "aac", "flac", "wav", "ogg", "oga", "opus", "wma"}
EditContainer(ext) ==
  IF ext \in AudioOnlyExt THEN ext ELSE IF ext \in {"", "mp4", "mov", "m4v"} THEN "mp4" ELSE "mkv"
EditPlan(p, ext) ==
  [tool |-> "ffmpeg edit", container |-> EditContainer(ext), copy |-> ext \in AudioOnlyExt,
   start |-> Seconds(p.start), span |-> IF p.end <= p.start THEN 0 ELSE Seconds(p.end - p.start),
   crop |-> IF p.crop_w > 0 /\ p.crop_h > 0 /\ ext \notin AudioOnlyExt
            THEN <<p.crop_w, p.crop_h, p.crop_x, p.crop_y>> ELSE <<>>]

\* ResolveFormat: the format of the input, if it is one that can be written.
FormatKnown(p, ext) == p.format = "source" => ext \in DOMAIN ImageFormatByExt
ResolveFormat(p, ext) == IF p.format = "source" THEN ImageFormatByExt[ext] ELSE p.format

\* The format ImageMagick renders to; svg is made from it.
RenderFormat(format) ==
  CASE format = "svg" -> "png" [] format = "svg_trace" -> "pbm" [] OTHER -> format

\* Image.Run: a file called .svg is rendered by rsvg-convert, with the requested
\* size, and ImageMagick is given the result; any other file it is given as it is,
\* and picks the decoder by the content.
ImagePlan(p, ext) ==
  LET format == ResolveFormat(p, ext)
      render == RenderFormat(format)
  IN [tool |-> "magick", via |-> IF ext = "svg" THEN "rsvg-convert" ELSE "direct", writes |-> render,
      quality |-> IF render \in {"jpg", "webp", "avif"} THEN p.quality ELSE 0,
      enlarge |-> render # format, output |-> IF format = "svg_trace" THEN "svg" ELSE format]

\* ytDlpArgs: the stream selector, with audio merged in unless a merge was asked
\* for, or the extraction of audio.
DownloadPlan(p, checked) ==
  [tool |-> "yt-dlp", checked |-> checked,
   select |-> IF p.mode = "audio" THEN "audio only"
              ELSE CASE p.format_id = "" -> "bv*+ba/b" [] p.format_id = "merge" -> "id"
                     [] OTHER -> "id+ba/id",
   to |-> IF p.mode = "audio" THEN p.audio_format ELSE p.container]

-----------------------------------------------------------------------------
(* The way of a job                                                        *)

VARIABLES
  phase,    \* "idle", "rejected", "queued", "failed" (the runner), "planned"
  req,      \* the request
  params,   \* the params column
  expires,  \* days until the job expires, 0 for never
  answer,   \* what the resolver says of the host at present
  plan      \* what the runner's tool is told to do

vars == <<phase, req, params, expires, answer, plan>>

Nothing == [tool |-> "none"]

Init ==
  /\ phase = "idle" /\ req = Nothing /\ params = Nothing /\ expires = 0
  /\ answer = {} /\ plan = Nothing

\* Slip: the parameters are stored as decoded.
CreateJobDecoded(r, now) ==
  LET p == Decode(r.raw, Defaults(r.type, DefaultRetention))
      accepted == (r.type = "download" => CheckSourceHost(r.url, now)) /\ Valid(r.type, p)
  IN /\ phase = "idle" /\ req' = r /\ answer' = now
     /\ IF accepted THEN phase' = "queued" /\ params' = p /\ expires' = p.retention_days
        ELSE phase' = "rejected" /\ UNCHANGED <<params, expires>>
     /\ UNCHANGED plan

\* handleCreateJob: the address of a download, by what the resolver says now, then
\* the parameters; stored is the parsed struct.
CreateJob(r, now) ==
  LET p == Decode(r.raw, Defaults(r.type, DefaultRetention))
      accepted == (r.type = "download" => CheckSourceHost(r.url, now)) /\ Valid(r.type, p)
  IN /\ phase = "idle" /\ req' = r /\ answer' = now
     /\ IF accepted
        THEN phase' = "queued" /\ params' = Fold(r.type, p) /\ expires' = p.retention_days
        ELSE phase' = "rejected" /\ UNCHANGED <<params, expires>>
     /\ UNCHANGED plan

\* The runner reads params with its own default for the retention.
RunnerDefaultRetention == 7
Reparsed == Decode(params, Defaults(req.type, RunnerDefaultRetention))

\* Slip: the address is taken as checked.
RunnableOnce(secs) ==
  /\ Valid(req.type, Reparsed)
  /\ req.type = "image" => FormatKnown(Reparsed, req.ext)
  /\ req.type = "compress" => BudgetFits(Reparsed, secs)

\* What must hold at the time of the run for a tool to be started.
Runnable(secs) ==
  /\ Valid(req.type, Reparsed)
  /\ req.type = "download" => CheckSourceHost(req.url, answer)
  /\ req.type = "image" => FormatKnown(Reparsed, req.ext)
  /\ req.type = "compress" => BudgetFits(Reparsed, secs)

\* Run, with the length ffprobe reports.
Run(secs) ==
  LET p == Fold(req.type, Reparsed) IN
  /\ phase = "queued"
  /\ IF Runnable(secs)
     THEN /\ phase' = "planned"
          /\ plan' = CASE req.type = "download" -> DownloadPlan(p, IF req.url.host = "literal" THEN req.url.addrs ELSE answer)
                       [] req.type = "convert" -> ConvertPlan(p)
                       [] req.type = "compress" -> CompressPlan(p, secs)
                       [] req.type = "image" -> ImagePlan(p, req.ext)
                       [] req.type = "edit" -> EditPlan(p, req.ext)
     ELSE phase' = "failed" /\ UNCHANGED plan
  /\ UNCHANGED <<req, params, expires, answer>>

\* The records of a name change while its job is queued, or when the runner has
\* checked it and yt-dlp is yet to look it up itself.
Rebind ==
  /\ phase \in {"queued", "planned"} /\ req.type = "download" /\ answer' \in Answers /\ answer' # answer
  /\ UNCHANGED <<phase, req, params, expires, plan>>

Next ==
  \/ /\ phase = "idle"
     /\ \E r \in Requests : \E now \in IF r.type = "download" THEN Answers ELSE {{}} : CreateJob(r, now)
  \/ \E secs \in Lengths : Run(secs)
  \/ Rebind

Spec == Init /\ [][Next]_vars

-----------------------------------------------------------------------------
(* Properties                                                              *)

\* Types; what is stored has all the fields of its type and a retention the
\* sweeper knows.
TypeOK ==
  /\ phase \in {"idle", "rejected", "queued", "failed", "planned"}
  /\ req \in Requests \cup {Nothing} /\ (req = Nothing) = (phase = "idle")
  /\ answer \in Answers \cup {{}} /\ expires \in RetentionChoices
  /\ params # Nothing => DOMAIN params = DOMAIN Defaults(req.type, 0)
  /\ (params = Nothing) = (phase \in {"idle", "rejected"}) /\ (plan = Nothing) = (phase # "planned")

\* What the handler has accepted the runner accepts and reads as the same, though
\* it parses what the first parse has changed, with another default: no job fails
\* on its parameters, and the record shows what is executed and until when.
RunnerAgrees ==
  params # Nothing =>
    /\ Valid(req.type, Reparsed) /\ Fold(req.type, Reparsed) = params
    /\ expires = params.retention_days

\* An encode with a quality has one its codec accepts, whichever of the three ways
\* it came from: custom, preset or compress target.
QualityInRange ==
  plan.tool = "ffmpeg" /\ plan.video # "copy" =>
    IF plan.kbps = 0 THEN plan.crf \in CRFBounds[plan.video] ELSE params.target = "target_size"

\* ffmpeg.go: '"under N MB" really lands under N MB': what the two passes spend on
\* video and audio over the probed length stays under the target with 2 % to spare.
UnderTarget ==
  plan.tool = "ffmpeg" /\ plan.kbps > 0 =>
    /\ (plan.kbps + plan.akbps) * plan.secs <= params.target_size_mb * 7840
    /\ plan.kbps >= 100

\* An edit cuts a piece of at least a tenth of a second that ends within a
\* millisecond of where it was asked to, or runs to the end of the file, and crops
\* to an even size H.264 can encode, at most a pixel less than asked for.  Whether
\* the crop lies in the frame is ffmpeg's to find out.
CutEncodable ==
  plan.tool = "ffmpeg edit" =>
    /\ plan.span = 0 \/ (plan.span >= 100 /\ 2 * (plan.start + plan.span) - 125 * req.raw.end \in -2..2)
    /\ plan.crop # <<>> => /\ \A i \in 1..2 : plan.crop[i] % 2 = 0 /\ plan.crop[i] >= 16
                           /\ plan.crop[1] \in {req.raw.crop_w, req.raw.crop_w - 1}
                           /\ plan.crop[2] \in {req.raw.crop_h, req.raw.crop_h - 1}

\* yt-dlp is started only on a host whose every address was public when the runner
\* checked it, whatever the name resolved to when the job was accepted.  What it
\* resolves to when yt-dlp looks it up after that (answer) nobody checks.
HostCheckedAtRun ==
  plan.tool = "yt-dlp" => plan.checked # {} /\ plan.checked \subseteq Permitted

-----------------------------------------------------------------------------
(* The inductive invariant behind these properties                         *)

\* What is stored is what a valid request was parsed to.
Stored ==
  params # Nothing =>
    LET p == Decode(req.raw, Defaults(req.type, DefaultRetention))
    IN Valid(req.type, p) /\ params = Fold(req.type, p) /\ expires = p.retention_days

IInv == /\ TypeOK /\ Stored /\ QualityInRange /\ UnderTarget
        /\ CutEncodable /\ HostCheckedAtRun

=============================================================================
