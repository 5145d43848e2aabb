--------------------------- MODULE PresetsProofs ----------------------------
(***************************************************************************)
(* The way of a job's parameters, proved: for any set of requests, any     *)
(* answers of the resolver and any lengths ffprobe may report.             *)
(***************************************************************************)
EXTENDS Presets, TLAPS

USE DEF vars

-----------------------------------------------------------------------------
(* Fields                                                                  *)

Fields ==
  [download |-> {"mode", "format_id", "audio_format", "audio_bitrate", "container", "retention_days"},
   convert  |-> {"preset", "container", "video_codec", "speed", "crf", "resolution", "frame_rate",
                 "audio_codec", "audio_bitrate", "retention_days"},
   compress |-> {"target", "target_size_mb", "container", "video_codec", "speed", "resolution",
                 "audio_bitrate", "retention_days"},
   image    |-> {"format", "trace", "quality", "width", "height", "retention_days"},
   edit     |-> {"start", "end", "crop_x", "crop_y", "crop_w", "crop_h", "retention_days"}]

\* Parameters of a type: a value for every field.
Complete(t, p) == p = [f \in Fields[t] |-> p[f]] /\ \A f \in Fields[t] : p[f] # Absent

\* The defaults of a type have its fields, and all of them a value.
LEMMA DefaultsFacts ==
    ASSUME NEW t \in Types, NEW n \in RetentionChoices
    PROVE  /\ DOMAIN Defaults(t, n) = Fields[t] /\ "retention_days" \in Fields[t]
           /\ \A f \in Fields[t] : Defaults(t, n)[f] # Absent
<1>1. DOMAIN Defaults(t, n) = Fields[t] /\ "retention_days" \in Fields[t]
  <2>1. CASE t = "download"
    BY <2>1 DEF Defaults, Fields
  <2>2. CASE t = "convert"
    BY <2>2 DEF Defaults, Fields
  <2>3. CASE t = "compress"
    BY <2>3 DEF Defaults, Fields
  <2>4. CASE t = "image"
    BY <2>4 DEF Defaults, Fields
  <2>5. CASE t = "edit"
    BY <2>5 DEF Defaults, Fields
  <2>6. QED BY <2>1, <2>2, <2>3, <2>4, <2>5 DEF Types
<1>2. QED BY <1>1, RequestsAssumption

\* Decoding completes a request, and leaves alone what is complete.
LEMMA DecodeFacts ==
    ASSUME NEW t \in Types, NEW n \in RetentionChoices, NEW raw
    PROVE  /\ Complete(t, Decode(raw, Defaults(t, n)))
           /\ Complete(t, raw) => Decode(raw, Defaults(t, n)) = raw
BY DefaultsFacts DEF Decode, Complete

-----------------------------------------------------------------------------
(* Parsing twice                                                           *)

\* Dropping the lowest bit once is enough.
LEMMA EvenFacts ==
    ASSUME NEW n \in Int
    PROVE  /\ Even(n) \in Int /\ Even(n) % 2 = 0 /\ Even(Even(n)) = Even(n)
           /\ Even(n) \in {n, n - 1} /\ Even(0) = 0
BY DEF Even

\* What parsing changes in valid parameters is valid, complete and changed no
\* further by parsing again.
LEMMA FoldFacts ==
    ASSUME NEW t \in Types, NEW p, Complete(t, p), Valid(t, p),
           t = "edit" => p.crop_w \in Int /\ p.crop_h \in Int
    PROVE  /\ Complete(t, Fold(t, p)) /\ Valid(t, Fold(t, p))
           /\ Fold(t, Fold(t, p)) = Fold(t, p)
           /\ Fold(t, p).retention_days = p.retention_days
<1>1. CASE t \in {"download", "compress", "image"}
  BY <1>1 DEF Fold
<1>2. CASE t = "convert"
  <2> DEFINE q == Resolved(p)
  <2>1. Fields[t] = {"preset", "container", "video_codec", "speed", "crf", "resolution", "frame_rate",
                     "audio_codec", "audio_bitrate", "retention_days"}
    BY <1>2 DEF Fields
  <2>2. Fold(t, p) = q /\ Fold(t, q) = Resolved(q)
    BY <1>2 DEF Fold
  <2>3. CASE p.preset = "custom"
    BY <2>2, <2>3 DEF Resolved
  <2>4. CASE p.preset # "custom"
    <3> DEFINE s == EncodePresetSpeed[p.preset]
               c == EncodePresetCRF[p.preset][p.video_codec]
    <3>1. /\ p.preset \in {"quality", "balanced", "speed", "size"}
          /\ p.video_codec \in {"h264", "h265", "vp9", "av1"}
      BY <1>2, <2>4 DEF Valid, ValidConvert, CheckPreset, EncodePresetCRF
    <3>2. s \in EncodeSpeeds
      BY <3>1 DEF EncodePresetSpeed, EncodeSpeeds
    <3>3. c \in Int
      BY <3>1 DEF EncodePresetCRF
    <3>4. q = [p EXCEPT !.speed = s, !.crf = c]
      BY <2>4 DEF Resolved
    <3> HIDE DEF s, c, q
    <3>5. p = [f \in Fields[t] |-> p[f]]
      BY DEF Complete
    <3>6. /\ q = [f \in Fields[t] |-> q[f]] /\ q.speed = s /\ q.crf = c
          /\ \A f \in Fields[t] \ {"speed", "crf"} : q[f] = p[f]
      BY <2>1, <3>4, <3>5
    <3>7. Complete(t, q)
      BY <2>1, <3>2, <3>3, <3>6, RequestsAssumption DEF Complete
    <3>8. /\ q.preset = p.preset /\ q.container = p.container /\ q.video_codec = p.video_codec
          /\ q.resolution = p.resolution /\ q.frame_rate = p.frame_rate /\ q.audio_codec = p.audio_codec
          /\ q.audio_bitrate = p.audio_bitrate /\ q.retention_days = p.retention_days
      BY <2>1, <3>6
    <3>9. Valid(t, q)
      BY <1>2, <2>4, <3>8 DEF Valid, ValidConvert, CheckPreset
    <3>10. Resolved(q) = q
      <4>1. Resolved(q) = [q EXCEPT !.speed = s, !.crf = c]
        BY <2>4, <3>8 DEF Resolved, s, c
      <4>2. QED BY <2>1, <3>6, <4>1
    <3>11. QED BY <2>2, <3>7, <3>8, <3>9, <3>10
  <2>5. QED BY <2>3, <2>4
<1>3. CASE t = "edit"
  <2> DEFINE q == [p EXCEPT !.crop_w = Even(p.crop_w), !.crop_h = Even(p.crop_h)]
  <2>1. Fields[t] = {"start", "end", "crop_x", "crop_y", "crop_w", "crop_h", "retention_days"}
    BY <1>3 DEF Fields
  <2>2. p = [f \in Fields[t] |-> p[f]]
    BY DEF Complete
  <2>3. Fold(t, p) = q
    BY <1>3, <2>1, <2>2 DEF Fold
  <2>4. /\ q = [f \in Fields[t] |-> q[f]] /\ q.crop_w = Even(p.crop_w) /\ q.crop_h = Even(p.crop_h)
        /\ \A f \in Fields[t] \ {"crop_w", "crop_h"} : q[f] = p[f]
    BY <2>1, <2>2
  <2> HIDE DEF q
  <2>5. /\ Even(p.crop_w) \in Int /\ Even(p.crop_h) \in Int /\ Even(0) = 0
        /\ Even(Even(p.crop_w)) = Even(p.crop_w) /\ Even(Even(p.crop_h)) = Even(p.crop_h)
    BY <1>3, EvenFacts
  <2>6. Complete(t, q)
    BY <2>1, <2>4, <2>5, RequestsAssumption DEF Complete
  <2>7. /\ q.start = p.start /\ q.end = p.end /\ q.crop_x = p.crop_x /\ q.crop_y = p.crop_y
        /\ q.retention_days = p.retention_days
    BY <2>1, <2>4
  <2>8. CheckCrop(q)
    <3>1. CheckCrop(p)
      BY <1>3 DEF Valid, ValidEdit
    <3>2. CASE p.crop_w = 0 /\ p.crop_h = 0
      BY <2>4, <2>5, <2>7, <3>1, <3>2 DEF CheckCrop
    <3>3. CASE ~(p.crop_w = 0 /\ p.crop_h = 0)
      <4>1. /\ Even(p.crop_w) \in CropMinPixels..CropMaxPixels /\ Even(p.crop_h) \in CropMinPixels..CropMaxPixels
            /\ p.crop_x \in 0..CropMaxPixels /\ p.crop_y \in 0..CropMaxPixels
        BY <3>1, <3>3 DEF CheckCrop
      <4>2. q.crop_w # 0 /\ Even(q.crop_w) = Even(p.crop_w) /\ Even(q.crop_h) = Even(p.crop_h)
        BY <2>4, <2>5, <4>1 DEF CropMinPixels
      <4>3. QED BY <2>7, <4>1, <4>2 DEF CheckCrop
    <3>4. QED BY <3>2, <3>3
  <2>9. Valid(t, q)
    BY <1>3, <2>7, <2>8 DEF Valid, ValidEdit
  <2>10. Fold(t, q) = q
    <3>1. Fold(t, q) = [q EXCEPT !.crop_w = Even(q.crop_w), !.crop_h = Even(q.crop_h)]
      BY <1>3, <2>1, <2>4 DEF Fold
    <3>2. Fold(t, q) = [q EXCEPT !.crop_w = q.crop_w, !.crop_h = q.crop_h]
      BY <2>4, <2>5, <3>1
    <3>3. QED BY <2>1, <2>4, <3>2
  <2>11. QED BY <2>3, <2>6, <2>7, <2>9, <2>10
<1>4. QED BY <1>1, <1>2, <1>3 DEF Types

\* The runner reads what the handler has stored, and nothing else.
LEMMA ReadsStored ==
    ASSUME TypeOK, Stored, params # Nothing
    PROVE  /\ req \in Requests /\ req.type \in Types
           /\ Complete(req.type, params) /\ Valid(req.type, params)
           /\ Reparsed = params /\ Fold(req.type, params) = params
           /\ expires = params.retention_days
<1> DEFINE t == req.type
           p == Decode(req.raw, Defaults(t, DefaultRetention))
<1>1. req \in Requests /\ t \in Types
  BY RequestsAssumption DEF TypeOK
<1>2. Complete(t, p)
  BY <1>1, ConstantsAssumption, DecodeFacts
<1>3. Valid(t, p) /\ params = Fold(t, p) /\ expires = p.retention_days
  BY DEF Stored
<1>4. t = "edit" => p.crop_w \in Int /\ p.crop_h \in Int
  <2> SUFFICES ASSUME t = "edit" PROVE p.crop_w \in Int /\ p.crop_h \in Int
    OBVIOUS
  <2>1. {req.raw.crop_w, req.raw.crop_h} \subseteq Int \cup {Absent}
    BY <1>1, RequestsAssumption
  <2>2. /\ p.crop_w = IF req.raw.crop_w = Absent THEN 0 ELSE req.raw.crop_w
        /\ p.crop_h = IF req.raw.crop_h = Absent THEN 0 ELSE req.raw.crop_h
    BY DEF Decode, Defaults
  <2>3. QED BY <2>1, <2>2
<1> HIDE DEF p
<1>5. /\ Complete(t, params) /\ Valid(t, params) /\ Fold(t, params) = params
      /\ params.retention_days = p.retention_days
  BY <1>1, <1>2, <1>3, <1>4, FoldFacts
<1>6. Reparsed = params
  BY <1>1, <1>5, DecodeFacts DEF Reparsed, RunnerDefaultRetention, RetentionChoices
<1>7. QED BY <1>1, <1>3, <1>5, <1>6

-----------------------------------------------------------------------------
(* The tables and the arithmetic of the plans                              *)

\* Every quality in the tables is one its codec accepts.
LEMMA TablesInBounds ==
    /\ DOMAIN CRFBounds = {"h264", "h265", "vp9", "av1"}
    /\ \A k \in DOMAIN EncodePresetCRF : \A v \in DOMAIN EncodePresetCRF[k] :
         EncodePresetCRF[k][v] \in CRFBounds[v]
    /\ \A k \in DOMAIN CompressCRF : \A v \in DOMAIN CompressCRF[k] :
         CompressCRF[k][v] \in CRFBounds[v]
<1>1. DOMAIN CRFBounds = {"h264", "h265", "vp9", "av1"}
  BY DEF CRFBounds
<1>2. ASSUME NEW k \in DOMAIN EncodePresetCRF, NEW v \in DOMAIN EncodePresetCRF[k]
      PROVE  EncodePresetCRF[k][v] \in CRFBounds[v]
  <2>1. k \in {"quality", "balanced", "speed", "size"}
    BY DEF EncodePresetCRF
  <2>2. v \in {"h264", "h265", "vp9", "av1"}
    BY <2>1 DEF EncodePresetCRF
  <2>3. CASE k = "quality"
    BY <2>2, <2>3 DEF EncodePresetCRF, CRFBounds
  <2>4. CASE k = "balanced"
    BY <2>2, <2>4 DEF EncodePresetCRF, CRFBounds
  <2>5. CASE k = "speed"
    BY <2>2, <2>5 DEF EncodePresetCRF, CRFBounds
  <2>6. CASE k = "size"
    BY <2>2, <2>6 DEF EncodePresetCRF, CRFBounds
  <2>7. QED BY <2>1, <2>3, <2>4, <2>5, <2>6
<1>3. ASSUME NEW k \in DOMAIN CompressCRF, NEW v \in DOMAIN CompressCRF[k]
      PROVE  CompressCRF[k][v] \in CRFBounds[v]
  <2>1. k \in {"light", "balanced", "aggressive"}
    BY DEF CompressCRF
  <2>2. v \in {"h264", "h265", "vp9", "av1"}
    BY <2>1 DEF CompressCRF
  <2>3. CASE k = "light"
    BY <2>2, <2>3 DEF CompressCRF, CRFBounds
  <2>4. CASE k = "balanced"
    BY <2>2, <2>4 DEF CompressCRF, CRFBounds
  <2>5. CASE k = "aggressive"
    BY <2>2, <2>5 DEF CompressCRF, CRFBounds
  <2>6. QED BY <2>1, <2>3, <2>4, <2>5
<1>4. QED BY <1>1, <1>2, <1>3

\* What a division spends is no more than there was.
LEMMA DivTimes ==
    ASSUME NEW a \in Nat, NEW n \in Nat \ {0}
    PROVE  (a \div n) \in Nat /\ (a \div n) * n <= a
OBVIOUS

LEMMA TimesMonotone ==
    ASSUME NEW a \in Nat, NEW b \in Nat, NEW n \in Nat, a <= b
    PROVE  a * n <= b * n
OBVIOUS

LEMMA KbpsFacts == \A b \in AudioBitrates : Kbps[b] \in Nat
BY DEF AudioBitrates, Kbps

\* A budget that is met keeps video and audio under the target.
LEMMA BudgetKept ==
    ASSUME NEW mb \in Nat, NEW secs \in Nat \ {0}, NEW audio \in Nat,
           TargetVideoKbps(mb, secs, audio) >= 100
    PROVE  /\ TargetVideoKbps(mb, secs, audio) \in Nat
           /\ (TargetVideoKbps(mb, secs, audio) + audio) * secs <= mb * 7840
<1> DEFINE a == mb * 7840
           q == a \div secs
           k == TargetVideoKbps(mb, secs, audio)
<1>1. a \in Nat
  OBVIOUS
<1>2. q \in Nat /\ q * secs <= a
  BY <1>1, DivTimes
<1>3. k = IF q - audio > 500000 THEN 500000 ELSE q - audio
  BY DEF TargetVideoKbps
<1> HIDE DEF a, q, k
<1>4. k \in Int
  BY <1>2, <1>3
<1>5. k \in Nat /\ k + audio <= q
  BY <1>2, <1>3, <1>4 DEF k
<1>6. (k + audio) * secs <= q * secs
  BY <1>2, <1>5, TimesMonotone
<1>7. (k + audio) * secs \in Nat /\ q * secs \in Nat
  BY <1>2, <1>5
<1>8. QED BY <1>1, <1>2, <1>5, <1>6, <1>7 DEF a, k

-----------------------------------------------------------------------------
(* Every step keeps the invariant                                          *)

\* Parameters have a retention, so they are not Nothing.
LEMMA CompleteIsSomething ==
    ASSUME NEW t \in Types, NEW p, Complete(t, p)
    PROVE  p # Nothing /\ DOMAIN p = DOMAIN Defaults(t, 0)
<1>1. DOMAIN p = Fields[t]
  BY DEF Complete
<1>2. "retention_days" \in Fields[t] /\ DOMAIN Defaults(t, 0) = Fields[t]
  BY DefaultsFacts DEF RetentionChoices
<1>3. "retention_days" \notin DOMAIN Nothing
  BY DEF Nothing
<1>4. QED BY <1>1, <1>2, <1>3

\* As long as there is no plan, nothing is claimed of it.
LEMMA NoPlanNoClaim ==
    ASSUME plan' = Nothing
    PROVE  (QualityInRange /\ UnderTarget /\ CutEncodable /\ HostCheckedAtRun)'
BY DEF Nothing, QualityInRange, UnderTarget, CutEncodable, HostCheckedAtRun

\* A request is stored as it was parsed, or rejected.
LEMMA CreateJobKeeps ==
    ASSUME IInv, NEW r \in Requests, NEW now \in Answers \cup {{}}, CreateJob(r, now)
    PROVE  IInv'
<1> DEFINE t == r.type
           p == Decode(r.raw, Defaults(t, DefaultRetention))
           accepted == (t = "download" => CheckSourceHost(r.url, now)) /\ Valid(t, p)
<1>1. t \in Types /\ r # Nothing
  BY RequestsAssumption DEF Nothing
<1>2. Complete(t, p)
  BY <1>1, ConstantsAssumption, DecodeFacts
<1>3. /\ phase = "idle" /\ req' = r /\ answer' = now /\ plan' = plan
      /\ IF accepted THEN phase' = "queued" /\ params' = Fold(t, p) /\ expires' = p.retention_days
         ELSE phase' = "rejected" /\ UNCHANGED <<params, expires>>
  BY DEF CreateJob
<1>4. plan = Nothing /\ params = Nothing /\ expires \in RetentionChoices
  BY <1>3 DEF IInv, TypeOK
<1>5. t = "edit" => p.crop_w \in Int /\ p.crop_h \in Int
  <2> SUFFICES ASSUME t = "edit" PROVE p.crop_w \in Int /\ p.crop_h \in Int
    OBVIOUS
  <2>1. {r.raw.crop_w, r.raw.crop_h} \subseteq Int \cup {Absent}
    BY RequestsAssumption
  <2>2. /\ p.crop_w = IF r.raw.crop_w = Absent THEN 0 ELSE r.raw.crop_w
        /\ p.crop_h = IF r.raw.crop_h = Absent THEN 0 ELSE r.raw.crop_h
    BY DEF Decode, Defaults
  <2>3. QED BY <2>1, <2>2
<1>6. accepted => /\ Fold(t, p) # Nothing /\ DOMAIN Fold(t, p) = DOMAIN Defaults(t, 0)
                  /\ p.retention_days \in RetentionChoices
  <2> HIDE DEF p
  <2>1. accepted => Complete(t, Fold(t, p))
    BY <1>1, <1>2, <1>5, FoldFacts
  <2>2. accepted => p.retention_days \in RetentionChoices
    BY DEF Valid
  <2>3. QED BY <1>1, <2>1, <2>2, CompleteIsSomething
<1> HIDE DEF p, accepted
<1>7. TypeOK'
  BY <1>1, <1>3, <1>4, <1>6 DEF IInv, TypeOK
<1>8. Stored'
  BY <1>3, <1>4 DEF Stored, p, accepted
<1>9. QED BY <1>3, <1>4, <1>7, <1>8, NoPlanNoClaim DEF IInv

\* What is claimed of a plan depends on the request, the parameters and the plan.
LEMMA ClaimsUnchanged ==
    ASSUME UNCHANGED <<req, params, plan>>
    PROVE  /\ QualityInRange => QualityInRange'
           /\ UnderTarget => UnderTarget'
           /\ CutEncodable => CutEncodable'
           /\ HostCheckedAtRun => HostCheckedAtRun'
<1>1. req' = req /\ params' = params /\ plan' = plan
  OBVIOUS
<1>2. (QualityInRange => QualityInRange') /\ (UnderTarget => UnderTarget')
  BY <1>1 DEF QualityInRange, UnderTarget
<1>3. CutEncodable => CutEncodable'
  <2>1. CASE plan.tool = "ffmpeg edit"
    BY <1>1, <2>1, Zenon DEF CutEncodable
  <2>2. CASE plan.tool # "ffmpeg edit"
    BY <1>1, <2>2, Zenon DEF CutEncodable
  <2>3. QED BY <2>1, <2>2
<1>4. HostCheckedAtRun => HostCheckedAtRun'
  BY <1>1 DEF HostCheckedAtRun
<1>5. QED BY <1>2, <1>3, <1>4

\* The address of a name is looked up again by the runner.
LEMMA RebindKeeps ==
    ASSUME IInv, Rebind
    PROVE  IInv'
<1>1. answer' \in Answers /\ UNCHANGED <<phase, req, params, expires, plan>>
  BY DEF Rebind
<1>2. TypeOK' /\ Stored'
  BY <1>1 DEF IInv, TypeOK, Stored
<1>3. QualityInRange' /\ UnderTarget' /\ CutEncodable' /\ HostCheckedAtRun'
  BY <1>1, ClaimsUnchanged DEF IInv
<1>4. QED BY <1>2, <1>3 DEF IInv

\* What a run is planned from: the stored parameters, and what it has checked.
LEMMA PlannedFrom ==
    ASSUME IInv, NEW secs \in Lengths, Run(secs), phase' = "planned"
    PROVE  /\ params # Nothing /\ UNCHANGED <<req, params, expires, answer>>
           /\ req \in Requests /\ req.type \in Types /\ Complete(req.type, params) /\ Valid(req.type, params)
           /\ req.type = "download" => CheckSourceHost(req.url, answer)
           /\ req.type = "image" => FormatKnown(params, req.ext)
           /\ req.type = "compress" => BudgetFits(params, secs)
           /\ plan' = CASE req.type = "download" -> DownloadPlan(params, IF req.url.host = "literal" THEN req.url.addrs ELSE answer)
                        [] req.type = "convert" -> ConvertPlan(params)
                        [] req.type = "compress" -> CompressPlan(params, secs)
                        [] req.type = "image" -> ImagePlan(params, req.ext)
                        [] req.type = "edit" -> EditPlan(params, req.ext)
<1>1. phase = "queued" /\ Runnable(secs) /\ UNCHANGED <<req, params, expires, answer>>
  BY DEF Run
<1>2. params # Nothing
  BY <1>1 DEF IInv, TypeOK
<1>3. /\ req \in Requests /\ req.type \in Types /\ Complete(req.type, params) /\ Valid(req.type, params)
      /\ Reparsed = params /\ Fold(req.type, params) = params
  BY <1>2, ReadsStored DEF IInv
<1>4. /\ req.type = "download" => CheckSourceHost(req.url, answer)
      /\ req.type = "image" => FormatKnown(params, req.ext)
      /\ req.type = "compress" => BudgetFits(params, secs)
  BY <1>1, <1>3 DEF Runnable
<1>5. QED BY <1>1, <1>2, <1>3, <1>4 DEF Run

\* A conversion: the quality is one the codec accepts.
LEMMA ConvertPlanned ==
    ASSUME NEW p, Complete("convert", p), Valid("convert", p), Resolved(p) = p
    PROVE  LET c == ConvertPlan(p)
           IN c.tool = "ffmpeg" /\ c.kbps = 0 /\ (c.video # "copy" => c.crf \in CRFBounds[c.video])
<1>1. ValidConvert(p)
  BY DEF Valid
<1>2. p.video_codec # "copy" => p.crf \in CRFBounds[p.video_codec]
  <2>1. CASE p.preset = "custom"
    BY <1>1, <2>1 DEF ValidConvert, CheckPreset
  <2>2. CASE p.preset # "custom"
    <3>1. /\ p.preset \in DOMAIN EncodePresetCRF
          /\ p.video_codec \in DOMAIN EncodePresetCRF[p.preset]
      BY <1>1, <2>2 DEF ValidConvert, CheckPreset
    <3>2. EncodePresetCRF[p.preset][p.video_codec] \in CRFBounds[p.video_codec]
      BY <3>1, TablesInBounds
    <3>3. p.crf = EncodePresetCRF[p.preset][p.video_codec]
      <4>1. p = [f \in Fields["convert"] |-> p[f]] /\ {"speed", "crf"} \subseteq Fields["convert"]
        BY DEF Complete, Fields
      <4>2. p = [p EXCEPT !.speed = EncodePresetSpeed[p.preset],
                          !.crf = EncodePresetCRF[p.preset][p.video_codec]]
        BY <2>2 DEF Resolved
      <4>3. QED BY <4>1, <4>2
    <3>4. QED BY <3>2, <3>3
  <2>3. QED BY <2>1, <2>2
<1>3. /\ ConvertPlan(p).tool = "ffmpeg" /\ ConvertPlan(p).kbps = 0
      /\ ConvertPlan(p).video = p.video_codec
      /\ p.video_codec # "copy" => ConvertPlan(p).crf = p.crf
  BY DEF ConvertPlan, EncodePlan
<1>4. QED BY <1>2, <1>3

\* A compression: by quality, or within the budget.
LEMMA CompressPlanned ==
    ASSUME NEW p, NEW secs \in Lengths, Valid("compress", p), BudgetFits(p, secs)
    PROVE  LET c == CompressPlan(p, secs)
           IN /\ c.tool = "ffmpeg"
              /\ IF c.kbps = 0 THEN c.crf \in CRFBounds[c.video]
                 ELSE /\ p.target = "target_size" /\ c.kbps >= 100
                      /\ (c.kbps + c.akbps) * c.secs <= p.target_size_mb * 7840
<1>1. ValidCompress(p) /\ secs \in Nat
  BY RequestsAssumption DEF Valid
<1>2. CASE p.target = "target_size"
  <2> DEFINE a == Kbps[p.audio_bitrate]
             k == TargetVideoKbps(p.target_size_mb, secs, a)
             c == CompressPlan(p, secs)
  <2>1. p.target_size_mb \in Nat
    BY <1>1, <1>2 DEF ValidCompress, CheckTargetSize
  <2>2. a \in Nat
    BY <1>1, KbpsFacts DEF ValidCompress
  <2>3. secs \in Nat \ {0} /\ k >= 100
    BY <1>1, <1>2 DEF BudgetFits
  <2>4. k \in Nat /\ (k + a) * secs <= p.target_size_mb * 7840
    BY <2>1, <2>2, <2>3, BudgetKept
  <2>5. c.tool = "ffmpeg" /\ c.kbps = k /\ c.akbps = a /\ c.secs = secs
    <3>1. DefaultAudioCodec(p.container) \in {"aac", "opus"}
      BY DEF DefaultAudioCodec
    <3> HIDE DEF k, a
    <3>2. QED BY <1>2, <3>1 DEF CompressPlan, EncodePlan, k, a
  <2> HIDE DEF c, k, a
  <2>6. k # 0
    BY <2>3, <2>4
  <2>7. QED BY <1>2, <2>3, <2>4, <2>5, <2>6 DEF c
<1>3. CASE p.target # "target_size"
  <2>1. p.target \in DOMAIN CompressCRF /\ p.video_codec \in DOMAIN CompressCRF[p.target]
    BY <1>1, <1>3 DEF ValidCompress, CheckTargetSize
  <2>2. CompressCRF[p.target][p.video_codec] \in CRFBounds[p.video_codec]
    BY <2>1, TablesInBounds
  <2>3. QED BY <1>3, <2>2 DEF CompressPlan, EncodePlan
<1>4. QED BY <1>2, <1>3

\* Three decimals are half a millisecond off at most.
LEMMA SecondsFacts ==
    ASSUME NEW n \in Nat
    PROVE  /\ Seconds(n) \in Nat /\ 2 * Seconds(n) - 125 * n \in -1..1
           /\ n >= 2 => Seconds(n) >= 100
<1> DEFINE a == n * 125
<1>1. a \in Nat /\ (n >= 2 => a >= 250)
  OBVIOUS
<1>2. Seconds(n) = IF a % 2 = 1 /\ (a \div 2) % 2 = 1 THEN a \div 2 + 1 ELSE a \div 2
  BY DEF Seconds
<1> HIDE DEF a
<1>3. PICK d \in Nat : d = a \div 2 /\ 2 * d <= a /\ a < 2 * d + 2
  BY <1>1
<1>4. Seconds(n) = d \/ (Seconds(n) = d + 1 /\ a % 2 = 1)
  BY <1>2, <1>3
<1>5. Seconds(n) \in Nat /\ 2 * Seconds(n) - a \in -1..1 /\ (n >= 2 => Seconds(n) >= 100)
  <2>1. a % 2 = 1 => a # 2 * d
    BY <1>3
  <2>2. QED BY <1>1, <1>3, <1>4, <2>1
<1>6. a = 125 * n
  BY DEF a
<1>7. QED BY <1>5, <1>6

\* An edit: what is cut and cropped is as asked for, and can be encoded.
LEMMA EditPlanned ==
    ASSUME NEW r \in Requests, r.type = "edit",
           NEW p, p = Fold("edit", Decode(r.raw, Defaults("edit", DefaultRetention))),
           Valid("edit", Decode(r.raw, Defaults("edit", DefaultRetention)))
    PROVE  LET c == EditPlan(p, r.ext)
           IN /\ c.tool = "ffmpeg edit"
              /\ c.span = 0 \/ (c.span >= 100 /\ 2 * (c.start + c.span) - 125 * r.raw.end \in -2..2)
              /\ c.crop # <<>> => /\ \A i \in 1..2 : c.crop[i] % 2 = 0 /\ c.crop[i] >= 16
                                 /\ c.crop[1] \in {r.raw.crop_w, r.raw.crop_w - 1}
                                 /\ c.crop[2] \in {r.raw.crop_h, r.raw.crop_h - 1}
<1> DEFINE q == Decode(r.raw, Defaults("edit", DefaultRetention))
           c == EditPlan(p, r.ext)
           w == q.crop_w
           h == q.crop_h
<1>1. ValidEdit(q)
  BY DEF Valid
<1>2. /\ q.end = IF r.raw.end = Absent THEN 0 ELSE r.raw.end
      /\ w = IF r.raw.crop_w = Absent THEN 0 ELSE r.raw.crop_w
      /\ h = IF r.raw.crop_h = Absent THEN 0 ELSE r.raw.crop_h
  BY DEF Decode, Defaults
<1>3. w \in Int /\ h \in Int
  <2>1. {r.raw.crop_w, r.raw.crop_h} \subseteq Int \cup {Absent}
    BY RequestsAssumption
  <2>2. QED BY <1>2, <2>1
<1>4. /\ p.start = q.start /\ p.end = q.end /\ p.crop_w = Even(w) /\ p.crop_h = Even(h)
      /\ p.crop_x = q.crop_x /\ p.crop_y = q.crop_y
  <2>1. /\ q = [f \in Fields["edit"] |-> q[f]]
        /\ Fields["edit"] = {"start", "end", "crop_x", "crop_y", "crop_w", "crop_h", "retention_days"}
    BY ConstantsAssumption, DecodeFacts DEF Complete, Types, Fields
  <2> HIDE DEF q
  <2>2. p = [q EXCEPT !.crop_w = Even(q.crop_w), !.crop_h = Even(q.crop_h)]
    BY <2>1 DEF Fold, q
  <2>3. QED BY <2>1, <2>2 DEF w, h
<1> HIDE DEF q, w, h
<1>5. /\ q.start \in Nat /\ q.end \in Nat
      /\ q.end > 0 => (q.end - q.start) * 10 >= 16
  BY <1>1 DEF ValidEdit
<1>6. c.span = 0 \/ (c.span >= 100 /\ 2 * (c.start + c.span) - 125 * r.raw.end \in -2..2)
  <2>1. c.start = Seconds(q.start) /\ c.span = IF q.end <= q.start THEN 0 ELSE Seconds(q.end - q.start)
    BY <1>4 DEF EditPlan
  <2>2. CASE q.end <= q.start
    BY <2>1, <2>2
  <2>3. CASE ~(q.end <= q.start)
    <3>1. q.end > 0 /\ q.end = r.raw.end
      BY <1>2, <1>5, <2>3
    <3>2. q.end - q.start \in Nat /\ q.end - q.start >= 2
      BY <1>5, <3>1
    <3>3. /\ c.start \in Nat /\ 2 * c.start - 125 * q.start \in -1..1
          /\ c.span \in Nat /\ 2 * c.span - 125 * (q.end - q.start) \in -1..1 /\ c.span >= 100
      BY <1>5, <2>1, <2>3, <3>2, SecondsFacts
    <3>4. QED BY <1>5, <3>1, <3>3
  <2>4. QED BY <2>2, <2>3
<1>7. ASSUME c.crop # <<>>
      PROVE  /\ \A i \in 1..2 : c.crop[i] % 2 = 0 /\ c.crop[i] >= 16
             /\ c.crop[1] \in {r.raw.crop_w, r.raw.crop_w - 1}
             /\ c.crop[2] \in {r.raw.crop_h, r.raw.crop_h - 1}
  <2>1. /\ Even(w) > 0 /\ Even(h) > 0
        /\ c.crop = <<Even(w), Even(h), q.crop_x, q.crop_y>>
    BY <1>4, <1>7 DEF EditPlan
  <2>2. /\ Even(w) \in Int /\ Even(w) % 2 = 0 /\ Even(w) \in {w, w - 1}
        /\ Even(h) \in Int /\ Even(h) % 2 = 0 /\ Even(h) \in {h, h - 1} /\ Even(0) = 0
    BY <1>3, EvenFacts
  <2>3. w # 0 /\ h # 0
    BY <2>1, <2>2
  <2>4. w = r.raw.crop_w /\ h = r.raw.crop_h
    BY <1>2, <2>3
  <2>5. Even(w) >= 16 /\ Even(h) >= 16
    <3>1. Even(w) \in CropMinPixels..CropMaxPixels /\ Even(h) \in CropMinPixels..CropMaxPixels
      BY <1>1, <2>3 DEF ValidEdit, CheckCrop, w, h
    <3>2. QED BY <2>2, <3>1 DEF CropMinPixels
  <2>6. c.crop[1] = Even(w) /\ c.crop[2] = Even(h)
    BY <2>1
  <2>7. QED BY <2>2, <2>4, <2>5, <2>6
<1>8. c.tool = "ffmpeg edit"
  BY DEF EditPlan
<1>9. QED BY <1>6, <1>7, <1>8

\* A download: from a host with public addresses only.
LEMMA DownloadPlanned ==
    ASSUME NEW p, NEW r \in Requests, NEW a, CheckSourceHost(r.url, a)
    PROVE  LET c == DownloadPlan(p, IF r.url.host = "literal" THEN r.url.addrs ELSE a)
           IN c.tool = "yt-dlp" /\ c.checked # {} /\ c.checked \subseteq Permitted
BY RequestsAssumption DEF CheckSourceHost, DownloadPlan

\* A run plans what is claimed of its plan, or fails.
LEMMA RunKeeps ==
    ASSUME IInv, NEW secs \in Lengths, Run(secs)
    PROVE  IInv'
<1> DEFINE t == req.type
           Claims == QualityInRange /\ UnderTarget /\ CutEncodable /\ HostCheckedAtRun
<1>1. /\ phase = "queued" /\ plan = Nothing /\ params # Nothing
      /\ UNCHANGED <<req, params, expires, answer>>
      /\ phase' = "planned" \/ (phase' = "failed" /\ plan' = plan)
  BY DEF Run, IInv, TypeOK
<1>2. Stored'
  BY <1>1 DEF IInv, Stored
<1>3. CASE phase' = "failed" /\ plan' = plan
  BY <1>1, <1>2, <1>3, NoPlanNoClaim DEF IInv, TypeOK
<1>4. CASE phase' = "planned"
  <2>1. t \in Types /\ Complete(t, params) /\ Valid(t, params) /\ req \in Requests
    BY <1>4, PlannedFrom
  <2>2. plan'.tool # "none" /\ Claims'
    <3>1. CASE t = "download"
      <4>1. plan'.tool = "yt-dlp" /\ plan'.checked # {} /\ plan'.checked \subseteq Permitted
        BY <1>4, <3>1, PlannedFrom, DownloadPlanned
      <4>2. QED BY <4>1 DEF QualityInRange, UnderTarget, CutEncodable, HostCheckedAtRun
    <3>2. CASE t = "convert"
      <4>1. plan' = ConvertPlan(params) /\ Resolved(params) = params
        <5>1. plan' = ConvertPlan(params)
          BY <1>4, <3>2, PlannedFrom
        <5>2. Fold(t, params) = params
          BY <1>1, ReadsStored DEF IInv
        <5>3. QED BY <3>2, <5>1, <5>2 DEF Fold
      <4>2. /\ plan'.tool = "ffmpeg" /\ plan'.kbps = 0
            /\ plan'.video # "copy" => plan'.crf \in CRFBounds[plan'.video]
        BY <2>1, <3>2, <4>1, ConvertPlanned
      <4>3. QED BY <4>2 DEF QualityInRange, UnderTarget, CutEncodable, HostCheckedAtRun
    <3>3. CASE t = "compress"
      <4>1. plan' = CompressPlan(params, secs) /\ BudgetFits(params, secs)
        BY <1>4, <3>3, PlannedFrom
      <4>2. /\ plan'.tool = "ffmpeg"
            /\ IF plan'.kbps = 0 THEN plan'.crf \in CRFBounds[plan'.video]
               ELSE /\ params.target = "target_size" /\ plan'.kbps >= 100
                    /\ (plan'.kbps + plan'.akbps) * plan'.secs <= params.target_size_mb * 7840
        BY <2>1, <3>3, <4>1, CompressPlanned
      <4>3. QED BY <1>1, <4>2 DEF QualityInRange, UnderTarget, CutEncodable, HostCheckedAtRun
    <3>4. CASE t = "image"
      <4>1. plan' = ImagePlan(params, req.ext)
        BY <1>4, <3>4, PlannedFrom
      <4>2. plan'.tool = "magick"
        BY <4>1 DEF ImagePlan
      <4>3. QED BY <4>2 DEF QualityInRange, UnderTarget, CutEncodable, HostCheckedAtRun
    <3>5. CASE t = "edit"
      <4>1. plan' = EditPlan(params, req.ext)
        BY <1>4, <3>5, PlannedFrom
      <4>2. LET q == Decode(req.raw, Defaults("edit", DefaultRetention))
            IN params = Fold("edit", q) /\ Valid("edit", q)
        BY <1>1, <3>5 DEF IInv, Stored
      <4>3. /\ plan'.tool = "ffmpeg edit"
            /\ plan'.span = 0 \/ (plan'.span >= 100 /\ 2 * (plan'.start + plan'.span) - 125 * req.raw.end \in -2..2)
            /\ plan'.crop # <<>> => /\ \A i \in 1..2 : plan'.crop[i] % 2 = 0 /\ plan'.crop[i] >= 16
                                   /\ plan'.crop[1] \in {req.raw.crop_w, req.raw.crop_w - 1}
                                   /\ plan'.crop[2] \in {req.raw.crop_h, req.raw.crop_h - 1}
        BY <2>1, <3>5, <4>1, <4>2, EditPlanned
      <4>4. QED BY <1>1, <4>3 DEF QualityInRange, UnderTarget, CutEncodable, HostCheckedAtRun
    <3>6. QED BY <2>1, <3>1, <3>2, <3>3, <3>4, <3>5 DEF Types
  <2>3. plan' # Nothing
    BY <2>2 DEF Nothing
  <2>4. TypeOK'
    BY <1>1, <1>4, <2>3 DEF IInv, TypeOK
  <2>5. QED BY <1>2, <2>2, <2>4 DEF IInv
<1>5. QED BY <1>1, <1>3, <1>4

-----------------------------------------------------------------------------
(* The theorems                                                            *)

\* What is stored, and what is planned from it, satisfies the invariant.
THEOREM ParametersInvariant == Spec => []IInv
<1>1. Init => IInv
  <2> SUFFICES ASSUME Init PROVE IInv
    OBVIOUS
  <2>1. Nothing \notin Requests /\ 0 \in RetentionChoices
    BY RequestsAssumption DEF Nothing, RetentionChoices
  <2>2. QED BY <2>1 DEF Init, IInv, TypeOK, Stored, QualityInRange, UnderTarget, CutEncodable,
                        HostCheckedAtRun, Nothing
<1>2. IInv /\ [Next]_vars => IInv'
  <2> SUFFICES ASSUME IInv, [Next]_vars PROVE IInv'
    OBVIOUS
  <2>1. CASE UNCHANGED vars
    <3>1. TypeOK' /\ Stored'
      BY <2>1 DEF IInv, TypeOK, Stored
    <3>2. QualityInRange' /\ UnderTarget' /\ CutEncodable' /\ HostCheckedAtRun'
      BY <2>1, ClaimsUnchanged DEF IInv
    <3>3. QED BY <3>1, <3>2 DEF IInv
  <2>2. ASSUME NEW r \in Requests, NEW now \in IF r.type = "download" THEN Answers ELSE {{}},
               CreateJob(r, now)
        PROVE  IInv'
    <3>1. now \in Answers \cup {{}}
      OBVIOUS
    <3>2. QED BY <2>2, <3>1, CreateJobKeeps
  <2>3. ASSUME NEW secs \in Lengths, Run(secs) PROVE IInv'
    BY <2>3, RunKeeps
  <2>4. CASE Rebind
    BY <2>4, RebindKeeps
  <2>5. QED BY <2>1, <2>2, <2>3, <2>4 DEF Next
<1>3. QED BY <1>1, <1>2, PTL DEF Spec

\* Requests, parameters and plans have their types, and what is stored has every
\* field of its type.
THEOREM TypeCorrect == Spec => []TypeOK
<1>1. IInv => TypeOK
  BY DEF IInv
<1>2. QED BY <1>1, ParametersInvariant, PTL

\* The runner accepts whatever handleCreateJob accepted and reads it as the same:
\* Parse after Parse changes nothing, whatever the default of the retention.
THEOREM RunnerAgreesHolds == Spec => []RunnerAgrees
<1>1. IInv => RunnerAgrees
  BY ReadsStored DEF IInv, RunnerAgrees
<1>2. QED BY <1>1, ParametersInvariant, PTL

\* No encode gets a quality its codec does not take, from a request or a table.
THEOREM QualityInRangeHolds == Spec => []QualityInRange
<1>1. IInv => QualityInRange
  BY DEF IInv
<1>2. QED BY <1>1, ParametersInvariant, PTL

\* A size target is kept, for every size, length and bitrate: "under N MB"
\* really lands under N MB.
THEOREM UnderTargetHolds == Spec => []UnderTarget
<1>1. IInv => UnderTarget
  BY DEF IInv
<1>2. QED BY <1>1, ParametersInvariant, PTL

\* Every cut is at least a tenth of a second and ends within a millisecond of the
\* end asked for, and every crop has an even size of the one asked for.
THEOREM CutEncodableHolds == Spec => []CutEncodable
<1>1. IInv => CutEncodable
  BY DEF IInv
<1>2. QED BY <1>1, ParametersInvariant, PTL

\* yt-dlp is started only when the runner's own check found public addresses only,
\* however the answers of the resolver change before and after it.
THEOREM HostCheckedAtRunHolds == Spec => []HostCheckedAtRun
<1>1. IInv => HostCheckedAtRun
  BY DEF IInv
<1>2. QED BY <1>1, ParametersInvariant, PTL

=============================================================================
