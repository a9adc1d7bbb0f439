\* Two handlers, one unit of quota a month and two months.
SPECIFICATION FairSpec
CONSTANTS
  Requests = {r1, r2}
  Limit = 1
  LastMonth = 2
  Readings <- MCReadings
  Transcriptions <- MCTranscriptions
INVARIANTS QuotaBounded TesseractGoesOnAlone 
PROPERTY EveryInvoiceAnswered
