\* Two symbols, so that one key cannot hide behind the other; queue and ring of
\* one, so that both limits are met; a window of two ticks, so that messages
\* lie below and at it.
CONSTANTS
  Sources = {Tdx, Tencent}
  Symbols = {sh, sz}
  Receivers = {persister, session}
  Persister = persister
  QueueCap = 1
  BroadcastCap = 1
  Window = 2
  MaxEmit = 2
  MaxTime = 2
SPECIFICATION Spec
INVARIANTS TypeOK PipelineInv SpacedFeed SourceOrder Accounted SuppressedIsCovered
PROPERTIES EventuallyDecided ImplementsQuoteFeed
